---- MODULE Spec2Model ----
(***************************************************************************)
(* A model of the recursive folding driver of src/src/lib.rs:              *)
(* PublicParams (setup, digest), RecursiveSNARK (new, prove_step, verify). *)
(*                                                                         *)
(* The driver is translated from lib.rs.  The collaborators whose code is  *)
(* in other modules of the crate (r1cs, nifs, circuit, digest, the         *)
(* providers' fields, commitments and random oracle) are modelled from     *)
(* the specification: two small prime fields stand for the two scalar      *)
(* fields of the curve cycle, a commitment is a linear map into the        *)
(* additive group of the field's order, the random oracle is an order-     *)
(* sensitive sponge truncated to NUM_HASH_BITS bits, and the augmented     *)
(* circuit is an R1CS made of the step circuit's constraints, the check    *)
(* of the incoming recursion hash and the two public outputs.              *)
(***************************************************************************)
EXTENDS Integers, Sequences, FiniteSets, TLC

(***************************************************************************)
(* State.                                                                  *)
(***************************************************************************)
VARIABLES
  pp,        \* the PublicParams the prover works with (its digest cell included)
  rs,        \* Option<RecursiveSNARK>: None until new has returned Ok
  last,      \* the last operation, its arguments and what it returned
  zn_direct, \* the outputs computed directly, step circuit after step circuit
  tampered,  \* the field altered after proving ("" when none was)
  failed,    \* whether a prove_step call has returned an error
  built,     \* the PublicParams objects built by setup, with setup's arguments
  digests,   \* for each of them, the values its digest() calls returned
  vpp,       \* the PublicParams the verifier holds
  compressed, \* Option<CompressedSNARK>: None until CompressedSNARK::prove returned Ok
  threads,   \* the callers of digest() that run concurrently, and where each is
  frame      \* the prove_step call in progress: its locals and the sub-steps done

vars == <<pp, rs, last, zn_direct, tampered, failed, built, digests,
          vpp, compressed, threads, frame>>

(***************************************************************************)
(* Bounds of the model.                                                    *)
(***************************************************************************)
\* The step counter i is capped: prove_step is not called once i = MaxSteps.
MaxSteps == 3
\* The number of PublicParams objects built side by side.
MaxParams == 2
\* The number of digest() calls followed on one PublicParams object.
MaxDigestCalls == 2
\* The number of threads that call digest() on one PublicParams.
MaxThreads == 2

(***************************************************************************)
(* Fields, constants.                                                      *)
(***************************************************************************)
\* Order of E1::Scalar (= E2::Base), the field of the primary circuit.
P1 == 23
\* Order of E2::Scalar (= E1::Base), the field of the secondary circuit.
P2 == 19
\* Width of a hash / challenge; 2^NUM_HASH_BITS is below both field orders.
NUM_HASH_BITS == 4
\* Width of the sponge state of the random oracle.
RO_STATE_BITS == 8
\* Field elements of the recursion hash preimage besides z0 and zi:
\* params, i, and the relaxed instance (comm_W, comm_E, u, X[0], X[1]).
NUM_FE_WITHOUT_IO_FOR_CRHF == 7
BN_LIMB_WIDTH == 2
BN_N_LIMBS == 3

Max2(a, b) == IF a >= b THEN a ELSE b

\* Field order of an engine's scalar field.
ScalarOrder(E) == IF E = "E1" THEN P1 ELSE P2
\* Field order of an engine's base field: the other engine's scalar field.
BaseOrder(E) == IF E = "E1" THEN P2 ELSE P1

\* gadgets::utils::scalar_as_base::<E>: the scalar's integer value rebuilt
\* bit by bit in the base field, i.e. reduced modulo the base field's order.
scalar_as_base(E, x) == x % BaseOrder(E)

\* E::Scalar::from(n as u64)
ScalarFrom(E, n) == n % ScalarOrder(E)

(***************************************************************************)
(* Vectors and sparse matrices over Z_P.                                   *)
(***************************************************************************)
Zeros(n) == [j \in 1..n |-> 0]

\* a + r * b, entry by entry
VecAddScaled(a, r, b, P) == [j \in 1..Len(a) |-> (a[j] + r * b[j]) % P]

\* A row of a sparse matrix is a sequence of <<column, coefficient>>.
RECURSIVE RowDot(_, _, _)
RowDot(row, z, P) ==
  IF row = <<>> THEN 0
  ELSE (Head(row)[2] * z[Head(row)[1]] + RowDot(Tail(row), z, P)) % P

MatVec(M, z, P) == [k \in 1..Len(M) |-> RowDot(M[k], z, P)]

(***************************************************************************)
(* Step circuits (traits::circuit::StepCircuit and the tests' circuits).   *)
(* A circuit value is [kind, y, fail]: y is the non-deterministic advice   *)
(* of FifthRootCheckingCircuit, fail makes synthesize return an error.     *)
(***************************************************************************)
Kinds == {"Trivial", "Cubic", "FifthRoot"}

arity(kind) == 1

\* Number of variables the step circuit allocates (its input included).
StepVars(kind) ==
  CASE kind = "Trivial" -> 1
    [] kind = "Cubic" -> 4
    [] kind = "FifthRoot" -> 5

\* The step circuit's constraints; `one` is the column of the constant.
StepA(kind, one) ==
  CASE kind = "Trivial" -> <<>>
    [] kind = "Cubic" ->
         << <<<<1, 1>>>>, <<<<2, 1>>>>, <<<<3, 1>>, <<1, 1>>, <<one, 5>>>> >>
    [] kind = "FifthRoot" ->
         << <<<<2, 1>>>>, <<<<3, 1>>>>, <<<<4, 1>>>>, <<<<5, 1>>>> >>

StepB(kind, one) ==
  CASE kind = "Trivial" -> <<>>
    [] kind = "Cubic" ->
         << <<<<1, 1>>>>, <<<<1, 1>>>>, <<<<one, 1>>>> >>
    [] kind = "FifthRoot" ->
         << <<<<2, 1>>>>, <<<<3, 1>>>>, <<<<2, 1>>>>, <<<<one, 1>>>> >>

StepC(kind, one) ==
  CASE kind = "Trivial" -> <<>>
    [] kind = "Cubic" ->
         << <<<<2, 1>>>>, <<<<3, 1>>>>, <<<<4, 1>>>> >>
    [] kind = "FifthRoot" ->
         << <<<<3, 1>>>>, <<<<4, 1>>>>, <<<<5, 1>>>>, <<<<1, 1>>>> >>

\* StepCircuit::synthesize on the witness-generating constraint system:
\* the values of the allocated variables and the output z_{i+1}.
StepSynthesize(c, x, P) ==
  CASE c.kind = "Trivial" -> [vars |-> <<x>>, out |-> x]
    [] c.kind = "Cubic" ->
         LET x_sq == (x * x) % P
             x_cu == (x_sq * x) % P
             y == (x_cu + x + 5) % P
         IN [vars |-> <<x, x_sq, x_cu, y>>, out |-> y]
    [] c.kind = "FifthRoot" ->
         LET y == c.y % P
             y_sq == (y * y) % P
             y_quad == (y_sq * y_sq) % P
             y_pow_5 == (y_quad * y) % P
         IN [vars |-> <<x, y, y_sq, y_quad, y_pow_5>>, out |-> y]

\* CubicCircuit::output of the tests: the direct computation of one step.
output(kind, y, x, P) ==
  CASE kind = "Trivial" -> x
    [] kind = "Cubic" -> (x * x * x + x + 5) % P
    [] kind = "FifthRoot" -> y % P

(***************************************************************************)
(* R1CS shapes.  z = W \o <<u>> \o X.  The augmented circuit allocates the *)
(* step circuit's variables, then d (incoming hash minus recomputed hash,  *)
(* enforced to be 0), then the two values it makes public.                 *)
(***************************************************************************)
r1cs_shape(kind) ==
  LET ns == StepVars(kind)
      n == ns + 3
      one == n + 1
  IN [num_cons |-> Len(StepA(kind, one)) + 3,
      num_vars |-> n,
      num_io |-> 2,
      A |-> StepA(kind, one) \o
            << <<<<ns + 1, 1>>>>, <<<<ns + 2, 1>>>>, <<<<ns + 3, 1>>>> >>,
      B |-> StepB(kind, one) \o
            << <<<<one, 1>>>>, <<<<one, 1>>>>, <<<<one, 1>>>> >>,
      C |-> StepC(kind, one) \o
            << <<>>, <<<<n + 2, 1>>>>, <<<<n + 3, 1>>>> >>]

\* R1CSShape::multiply_witness_into: (A z, B z, C z) for z = (W, u, X).
multiply_witness(S, W, u, X, P) ==
  LET z == W \o <<u>> \o X
  IN [AZ |-> MatVec(S.A, z, P), BZ |-> MatVec(S.B, z, P), CZ |-> MatVec(S.C, z, P)]

(***************************************************************************)
(* Commitments (CommitmentEngineTrait).  The group of engine E has the     *)
(* order of E's scalar field; an element is written as its discrete log.   *)
(***************************************************************************)
\* The j-th generator of a commitment key, derived from a fixed label.
Generator(E, j) == 1 + ((7 * j) % (ScalarOrder(E) - 1))

\* CommitmentEngineTrait::setup(label, n)
CommitmentKey(E, n) == [j \in 1..n |-> Generator(E, j)]

RECURSIVE MSM(_, _, _, _)
MSM(ck, v, k, P) ==
  IF k = 0 THEN 0 ELSE (ck[k] * v[k] + MSM(ck, v, k - 1, P)) % P

\* CE::commit(ck, v)
commit(E, ck, v) == MSM(ck, v, Len(v), ScalarOrder(E))

\* Commitment::compress: an encoding of the group element; 0 encodes none.
compress(E, c) == c + 1

\* Commitment::decompress: Err(InvalidCommitment) on an encoding of no element.
decompress(E, cc) ==
  IF cc >= 1 /\ cc <= ScalarOrder(E)
  THEN [ok |-> TRUE, val |-> cc - 1]
  ELSE [ok |-> FALSE, val |-> 0]

\* traits::snark::default_ck_hint and RelaxedR1CSSNARKTrait::ck_floor of the
\* ppsnark: the number of generators a compressing SNARK asks for.
ck_hint(hint, S) == IF hint = "ppsnark" THEN S.num_cons + S.num_vars ELSE 0

\* ShapeCS::r1cs_shape_and_key: the key is sized to the larger of
\* num_cons, num_vars and the hint.
r1cs_shape_and_key(E, kind, hint) ==
  LET S == r1cs_shape(kind)
  IN [shape |-> S,
      ck |-> CommitmentKey(E, Max2(Max2(S.num_cons, S.num_vars), ck_hint(hint, S)))]

(***************************************************************************)
(* The random oracle (ROTrait): new(constants, num_absorbs), absorb,       *)
(* squeeze(num_bits).  ROConstantsCircuit<E> holds the same constants as   *)
(* ROConstants<E>: the in-circuit oracle computes the same function.       *)
(***************************************************************************)
ROConstantsDefault(E) ==
  IF E = "E1" THEN [mult |-> 3, seed |-> 1] ELSE [mult |-> 5, seed |-> 2]

\* The sponge state after absorbing elems[lo..hi] in order.  The range is
\* split in two and the state after the first half is computed before the
\* second half is entered, so that long inputs do not nest deeply.
RECURSIVE RO_absorb_range(_, _, _, _, _)
RO_absorb_range(consts, state, elems, lo, hi) ==
  IF lo > hi THEN state
  ELSE IF lo = hi
  THEN (state * consts.mult + elems[lo] + 1) % (2 ^ RO_STATE_BITS)
  ELSE LET mid == (lo + hi) \div 2
           half == RO_absorb_range(consts, state, elems, lo, mid)
       IN IF half >= 0
          THEN RO_absorb_range(consts, half, elems, mid + 1, hi)
          ELSE half

\* RO::absorb, element after element
RO_absorb(consts, state, elems) == RO_absorb_range(consts, state, elems, 1, Len(elems))

\* RO::new(consts, num_absorbs), absorb of each element, squeeze(num_bits)
RO_hash(consts, num_absorbs, elems, num_bits) ==
  RO_absorb(consts, (consts.seed + num_absorbs) % (2 ^ RO_STATE_BITS), elems)
    % (2 ^ num_bits)

(***************************************************************************)
(* R1CS instances and witnesses (module r1cs).                             *)
(***************************************************************************)
\* RelaxedR1CSInstance::default
RelaxedR1CSInstance_default(S) ==
  [comm_W |-> 0, comm_E |-> 0, u |-> 0, X |-> Zeros(S.num_io)]

\* RelaxedR1CSWitness::default
RelaxedR1CSWitness_default(S) ==
  [W |-> Zeros(S.num_vars), E |-> Zeros(S.num_cons)]

\* Fault injection: the plain instance is taken over with u = 0.
from_r1cs_instance_unlifted(inst) ==
  [comm_W |-> inst.comm_W, comm_E |-> 0, u |-> 0, X |-> inst.X]

\* RelaxedR1CSInstance::from_r1cs_instance: u = 1, comm_E = commit(0)
from_r1cs_instance(inst) ==
  [comm_W |-> inst.comm_W, comm_E |-> 0, u |-> 1, X |-> inst.X]

\* RelaxedR1CSWitness::from_r1cs_witness: E = 0^m
from_r1cs_witness(S, w) == [W |-> w.W, E |-> Zeros(S.num_cons)]

\* AbsorbInROTrait for RelaxedR1CSInstance: comm_W, comm_E, u, then X.
absorb_relaxed(U) == <<U.comm_W, U.comm_E, U.u>> \o U.X

\* AbsorbInROTrait for R1CSInstance: comm_W, then X.
absorb_plain(inst) == <<inst.comm_W>> \o inst.X

\* R1CSShape::is_sat_relaxed: (Az) o (Bz) = u (Cz) + E and both commitments
\* open to the witness.
is_sat_relaxed(E, S, ck, U, W) ==
  IF Len(W.W) # S.num_vars \/ Len(W.E) # S.num_cons \/ Len(U.X) # S.num_io
  THEN "UnSat"
  ELSE
    LET P == ScalarOrder(E)
        m == multiply_witness(S, W.W, U.u, U.X, P)
        res_eq == \A k \in 1..S.num_cons :
                    (m.AZ[k] * m.BZ[k]) % P = (U.u * m.CZ[k] + W.E[k]) % P
        res_comm == /\ U.comm_W = commit(E, ck, W.W)
                    /\ U.comm_E = commit(E, ck, W.E)
    IN IF res_eq /\ res_comm THEN "Ok" ELSE "UnSat"

\* R1CSShape::is_sat: (Az) o (Bz) = Cz with z = (W, 1, X), and the
\* commitment opens to the witness.
is_sat(E, S, ck, inst, w) ==
  IF Len(w.W) # S.num_vars \/ Len(inst.X) # S.num_io
  THEN "UnSat"
  ELSE
    LET P == ScalarOrder(E)
        m == multiply_witness(S, w.W, 1, inst.X, P)
        res_eq == \A k \in 1..S.num_cons : (m.AZ[k] * m.BZ[k]) % P = m.CZ[k]
        res_comm == inst.comm_W = commit(E, ck, w.W)
    IN IF res_eq /\ res_comm THEN "Ok" ELSE "UnSat"

(***************************************************************************)
(* NIFS, the folding scheme (module nifs).                                 *)
(***************************************************************************)
\* The challenge: absorb pp_digest, U1, u2 and comm_T, then squeeze.
nifs_challenge(ro_consts, pp_digest, U1, u2, comm_T) ==
  RO_hash(ro_consts, NUM_FE_WITHOUT_IO_FOR_CRHF,
          <<pp_digest>> \o absorb_relaxed(U1) \o absorb_plain(u2) \o <<comm_T>>,
          NUM_HASH_BITS)

\* RelaxedR1CSInstance::fold
fold_instance(E, U1, u2, comm_T, r) ==
  LET P == ScalarOrder(E)
  IN [comm_W |-> (U1.comm_W + r * u2.comm_W) % P,
      comm_E |-> (U1.comm_E + r * comm_T) % P,
      u |-> (U1.u + r) % P,
      X |-> VecAddScaled(U1.X, r, u2.X, P)]

\* RelaxedR1CSWitness::fold
fold_witness(E, W1, w2, T, r) ==
  LET P == ScalarOrder(E)
  IN [W |-> VecAddScaled(W1.W, r, w2.W, P), E |-> VecAddScaled(W1.E, r, T, P)]

\* R1CSShape::commit_T: the cross term
\* T = AZ1 o BZ2 + AZ2 o BZ1 - u1 CZ2 - u2 CZ1, with u2 = 1.
cross_term(E, S, U1, W1, u2, w2) ==
  LET P == ScalarOrder(E)
      m1 == multiply_witness(S, W1.W, U1.u, U1.X, P)
      m2 == multiply_witness(S, w2.W, 1, u2.X, P)
  IN [k \in 1..S.num_cons |->
        (m1.AZ[k] * m2.BZ[k] + m2.AZ[k] * m1.BZ[k]
           + (P - 1) * ((U1.u * m2.CZ[k]) % P) + (P - 1) * m1.CZ[k]) % P]

\* Whether the pairs have the sizes the shape asks for.
nifs_sizes_ok(S, U1, W1, u2, w2) ==
  /\ Len(W1.W) = S.num_vars /\ Len(W1.E) = S.num_cons /\ Len(U1.X) = S.num_io
  /\ Len(w2.W) = S.num_vars /\ Len(u2.X) = S.num_io

\* NIFS::prove: the folded pair as a fresh pair, and the proof (the
\* compressed commitment to the cross term).
NIFS_prove(E, ck, ro_consts, pp_digest, S, U1, W1, u2, w2) ==
  IF ~nifs_sizes_ok(S, U1, W1, u2, w2)
  THEN [ok |-> FALSE, comm_T |-> 0, U |-> U1, W |-> W1, T |-> <<>>]
  ELSE
    LET T == cross_term(E, S, U1, W1, u2, w2)
        comm_T == commit(E, ck, T)
        r == nifs_challenge(ro_consts, pp_digest, U1, u2, comm_T)
    IN [ok |-> TRUE,
        comm_T |-> compress(E, comm_T),
        U |-> fold_instance(E, U1, u2, comm_T, r),
        W |-> fold_witness(E, W1, w2, T, r),
        T |-> T]

\* Fault injection: the in-place fold adds the plain instance once more.
NIFS_prove_mut_folds_twice(E, ck, ro_consts, pp_digest, S, U1, W1, u2, w2, buffer) ==
  LET p == NIFS_prove(E, ck, ro_consts, pp_digest, S, U1, W1, u2, w2)
  IN [ok |-> p.ok, comm_T |-> p.comm_T, U |-> fold_instance(E, p.U, u2, 0, 1),
      W |-> p.W, buffer |-> buffer]

\* Fault injection: the fold is computed but the running instance is not
\* written.
NIFS_prove_mut_keeps_instance(E, ck, ro_consts, pp_digest, S, U1, W1, u2, w2, buffer) ==
  LET p == NIFS_prove(E, ck, ro_consts, pp_digest, S, U1, W1, u2, w2)
  IN [ok |-> p.ok, comm_T |-> p.comm_T, U |-> U1, W |-> p.W, buffer |-> buffer]

\* NIFS::prove_mut: the same fold, written over the running pair and the
\* scratch buffer (the buffer keeps the cross term).
NIFS_prove_mut(E, ck, ro_consts, pp_digest, S, U1, W1, u2, w2, buffer) ==
  LET p == NIFS_prove(E, ck, ro_consts, pp_digest, S, U1, W1, u2, w2)
  IN [ok |-> p.ok, comm_T |-> p.comm_T, U |-> p.U, W |-> p.W,
      buffer |-> IF p.ok
                 THEN [buffer EXCEPT
                         !.T = p.T,
                         !.ABC_Z_1 = multiply_witness(S, p.W.W, p.U.u, p.U.X,
                                                      ScalarOrder(E)),
                         !.ABC_Z_2 = multiply_witness(S, w2.W, 1, u2.X,
                                                      ScalarOrder(E))]
                 ELSE buffer]

\* NIFS::verify: the folded instance from the instances and the proof.
NIFS_verify(E, ro_consts, pp_digest, U1, u2, cc_T) ==
  LET d == decompress(E, cc_T)
  IN IF ~d.ok THEN [ok |-> FALSE, U |-> U1]
     ELSE [ok |-> TRUE,
           U |-> fold_instance(E, U1, u2, d.val,
                               nifs_challenge(ro_consts, pp_digest, U1, u2, d.val))]

(***************************************************************************)
(* Option values are sequences: <<>> is None, <<v>> is Some(v).            *)
(***************************************************************************)
None == <<>>
Some(v) == <<v>>

(***************************************************************************)
(* PublicParams.                                                           *)
(***************************************************************************)
\* NovaAugmentedCircuitParams::new(limb_width, n_limbs, is_primary_circuit)
NovaAugmentedCircuitParams(limb_width, n_limbs, is_primary_circuit) ==
  [limb_width |-> limb_width, n_limbs |-> n_limbs,
   is_primary_circuit |-> is_primary_circuit]

\* CircuitShape::new
CircuitShape(S, F_arity) == [F_arity |-> F_arity, r1cs_shape |-> S]

\* The PublicParams value built at the end of setup.
PublicParams(c_primary, c_secondary, sk1, sk2) ==
  [F_arity_primary |-> arity(c_primary.kind),
   F_arity_secondary |-> arity(c_secondary.kind),
   ro_consts_primary |-> ROConstantsDefault("E1"),
   ro_consts_circuit_primary |-> ROConstantsDefault("E2"),
   ck_primary |-> sk1.ck,
   circuit_shape_primary |-> CircuitShape(sk1.shape, arity(c_primary.kind)),
   ro_consts_secondary |-> ROConstantsDefault("E2"),
   ro_consts_circuit_secondary |-> ROConstantsDefault("E1"),
   ck_secondary |-> sk2.ck,
   circuit_shape_secondary |-> CircuitShape(sk2.shape, arity(c_secondary.kind)),
   augmented_circuit_params_primary |->
     NovaAugmentedCircuitParams(BN_LIMB_WIDTH, BN_N_LIMBS, TRUE),
   augmented_circuit_params_secondary |->
     NovaAugmentedCircuitParams(BN_LIMB_WIDTH, BN_N_LIMBS, FALSE),
   digest |-> None,
   types |-> <<c_primary.kind, c_secondary.kind>>]

\* Fault injection: a setup that draws fresh generators for each
\* PublicParams it builds (here: shifted by the number built so far).
setup_fresh_key(c_primary, c_secondary, ck_hint1, ck_hint2) ==
  LET sk1 == r1cs_shape_and_key("E1", c_primary.kind, ck_hint1)
      sk2 == r1cs_shape_and_key("E2", c_secondary.kind, ck_hint2)
      fresh1 == [j \in 1..Len(sk1.ck) |-> 1 + ((sk1.ck[j] + Len(built)) % (P1 - 1))]
  IN PublicParams(c_primary, c_secondary, [shape |-> sk1.shape, ck |-> fresh1], sk2)

\* PublicParams::setup
setup(c_primary, c_secondary, ck_hint1, ck_hint2) ==
  PublicParams(c_primary, c_secondary,
               r1cs_shape_and_key("E1", c_primary.kind, ck_hint1),
               r1cs_shape_and_key("E2", c_secondary.kind, ck_hint2))

RECURSIVE SerRow(_)
SerRow(row) ==
  IF row = <<>> THEN <<>> ELSE <<Head(row)[1], Head(row)[2]>> \o SerRow(Tail(row))

RECURSIVE SerMatrix(_)
SerMatrix(M) ==
  IF M = <<>> THEN <<>>
  ELSE <<Len(Head(M))>> \o SerRow(Head(M)) \o SerMatrix(Tail(M))

SerShape(cs) ==
  <<cs.F_arity, cs.r1cs_shape.num_cons, cs.r1cs_shape.num_vars, cs.r1cs_shape.num_io>>
    \o SerMatrix(cs.r1cs_shape.A) \o SerMatrix(cs.r1cs_shape.B)
    \o SerMatrix(cs.r1cs_shape.C)

SerParams(a) ==
  <<a.limb_width, a.n_limbs, IF a.is_primary_circuit THEN 1 ELSE 0>>

\* Fault injection: a serialization that leaves the two commitment keys out.
Serialize_without_keys(self) ==
  <<self.F_arity_primary, self.F_arity_secondary>>
    \o <<self.ro_consts_primary.mult, self.ro_consts_primary.seed>>
    \o <<self.ro_consts_circuit_primary.mult, self.ro_consts_circuit_primary.seed>>
    \o SerShape(self.circuit_shape_primary)
    \o <<self.ro_consts_secondary.mult, self.ro_consts_secondary.seed>>
    \o <<self.ro_consts_circuit_secondary.mult, self.ro_consts_circuit_secondary.seed>>
    \o SerShape(self.circuit_shape_secondary)
    \o SerParams(self.augmented_circuit_params_primary)
    \o SerParams(self.augmented_circuit_params_secondary)

\* The serialization the digest is taken over: every field of PublicParams
\* in declaration order, the digest cell skipped (serde(skip)).
Serialize(self) ==
  <<self.F_arity_primary, self.F_arity_secondary>>
    \o <<self.ro_consts_primary.mult, self.ro_consts_primary.seed>>
    \o <<self.ro_consts_circuit_primary.mult, self.ro_consts_circuit_primary.seed>>
    \o <<Len(self.ck_primary)>> \o self.ck_primary
    \o SerShape(self.circuit_shape_primary)
    \o <<self.ro_consts_secondary.mult, self.ro_consts_secondary.seed>>
    \o <<self.ro_consts_circuit_secondary.mult, self.ro_consts_circuit_secondary.seed>>
    \o <<Len(self.ck_secondary)>> \o self.ck_secondary
    \o SerShape(self.circuit_shape_secondary)
    \o SerParams(self.augmented_circuit_params_primary)
    \o SerParams(self.augmented_circuit_params_secondary)

\* DigestComputer::digest: a hash of the serialization, truncated to
\* NUM_HASH_BITS bits and read as an E1 scalar.
DigestComputer(self) ==
  ScalarFrom("E1", RO_hash([mult |-> 7, seed |-> 3], 0, Serialize(self), NUM_HASH_BITS))

\* PublicParams::digest: the value returned (the cell's, once it is set).
digest(self) == IF self.digest # None THEN self.digest[1] ELSE DigestComputer(self)

\* Fault injection: a digest() that writes the cell anew at every call, with
\* the next field element.
digest_init_rewrites(self) == [self EXCEPT !.digest = Some((digest(self) + 1) % ScalarOrder("E1"))]

\* Fault injection: a digest() that takes the value out of the cell.
digest_init_takes(self) == [self EXCEPT !.digest = None]

\* PublicParams::digest: the PublicParams after the call (get_or_try_init).
digest_init(self) == [self EXCEPT !.digest = Some(digest(self))]

(***************************************************************************)
(* The augmented circuit (module circuit), for NovaAugmentedCircuit<E, C>: *)
(* it is a circuit over E::Base that folds instances of engine E.          *)
(***************************************************************************)
NovaAugmentedCircuitInputs(params, i, z0, zi, U, u, T) ==
  [params |-> params, i |-> i, z0 |-> z0, zi |-> zi, U |-> U, u |-> u, T |-> T]

\* Fault injection: the base case hashes the step index 0, the initial input
\* in both positions and the default running instance.
NovaAugmentedCircuit_synthesize_base_at_0(E, params, inputs, c, ro_consts) ==
  LET P == BaseOrder(E)
      S0 == [num_io |-> 2, num_vars |-> 0, num_cons |-> 0]
      is_base == inputs.i = 0
      U_in == IF inputs.U = None THEN RelaxedR1CSInstance_default(S0) ELSE inputs.U[1]
      u_in == IF inputs.u = None THEN [comm_W |-> 0, X |-> <<0, 0>>] ELSE inputs.u[1]
      T_in == IF inputs.T = None THEN 0 ELSE inputs.T[1]
      z_i == IF is_base \/ inputs.zi = None THEN inputs.z0 ELSE inputs.zi[1]
      params_b == scalar_as_base(E, inputs.params)
      num_absorbs == NUM_FE_WITHOUT_IO_FOR_CRHF + 2 * arity(c.kind)
      hash_in == RO_hash(ro_consts, num_absorbs,
                         <<params_b, inputs.i>> \o inputs.z0 \o z_i
                           \o absorb_relaxed(U_in),
                         NUM_HASH_BITS)
      U_fold == fold_instance(E, U_in, u_in, T_in,
                              nifs_challenge(ro_consts, params_b, U_in, u_in, T_in))
      U_base == IF params.is_primary_circuit
                THEN RelaxedR1CSInstance_default(S0)
                ELSE from_r1cs_instance(u_in)
      Unew == IF is_base THEN U_base ELSE U_fold
      d == IF is_base THEN 0
           ELSE (scalar_as_base(E, u_in.X[1]) + P - hash_in) % P
      step == StepSynthesize(c, z_i[1], P)
      hash == RO_hash(ro_consts, num_absorbs,
                      IF is_base
                      THEN <<params_b, 0>> \o inputs.z0 \o inputs.z0
                             \o absorb_relaxed(RelaxedR1CSInstance_default(S0))
                      ELSE <<params_b, (inputs.i + 1) % P>> \o inputs.z0
                             \o <<step.out>> \o absorb_relaxed(Unew),
                      NUM_HASH_BITS)
      X == <<scalar_as_base(E, u_in.X[2]), hash>>
  IN IF c.fail \/ Len(inputs.z0) # arity(c.kind)
     THEN [ok |-> FALSE, zi |-> <<>>, W |-> <<>>, X |-> <<>>]
     ELSE [ok |-> TRUE, zi |-> <<step.out>>,
           W |-> step.vars \o <<d, X[1], X[2]>>, X |-> X]

\* NovaAugmentedCircuit::synthesize on a SatisfyingAssignment: the outputs
\* z_{i+1} and the assignment (W the allocated variables, X the two public
\* outputs).  Base case (i = 0): no hash check, no fold; the running
\* instance hashed is the default one on the primary side and the lifted
\* incoming instance on the secondary side.  Otherwise the incoming u.X[0]
\* is checked against H(params, i, z0, zi, U) and U, u are folded with T.
\* X[0] passes u.X[1] on; X[1] = H(params, i + 1, z0, z_{i+1}, U').
NovaAugmentedCircuit_synthesize(E, params, inputs, c, ro_consts) ==
  LET P == BaseOrder(E)
      S0 == [num_io |-> 2, num_vars |-> 0, num_cons |-> 0]
      is_base == inputs.i = 0
      U_in == IF inputs.U = None THEN RelaxedR1CSInstance_default(S0) ELSE inputs.U[1]
      u_in == IF inputs.u = None THEN [comm_W |-> 0, X |-> <<0, 0>>] ELSE inputs.u[1]
      T_in == IF inputs.T = None THEN 0 ELSE inputs.T[1]
      z_i == IF is_base \/ inputs.zi = None THEN inputs.z0 ELSE inputs.zi[1]
      params_b == scalar_as_base(E, inputs.params)
      num_absorbs == NUM_FE_WITHOUT_IO_FOR_CRHF + 2 * arity(c.kind)
      hash_in == RO_hash(ro_consts, num_absorbs,
                         <<params_b, inputs.i>> \o inputs.z0 \o z_i
                           \o absorb_relaxed(U_in),
                         NUM_HASH_BITS)
      U_fold == fold_instance(E, U_in, u_in, T_in,
                              nifs_challenge(ro_consts, params_b, U_in, u_in, T_in))
      U_base == IF params.is_primary_circuit
                THEN RelaxedR1CSInstance_default(S0)
                ELSE from_r1cs_instance(u_in)
      Unew == IF is_base THEN U_base ELSE U_fold
      d == IF is_base THEN 0
           ELSE (scalar_as_base(E, u_in.X[1]) + P - hash_in) % P
      step == StepSynthesize(c, z_i[1], P)
      hash == RO_hash(ro_consts, num_absorbs,
                      <<params_b, (inputs.i + 1) % P>> \o inputs.z0 \o <<step.out>>
                        \o absorb_relaxed(Unew),
                      NUM_HASH_BITS)
      X == <<scalar_as_base(E, u_in.X[2]), hash>>
  IN IF c.fail \/ Len(inputs.z0) # arity(c.kind)
     THEN [ok |-> FALSE, zi |-> <<>>, W |-> <<>>, X |-> <<>>]
     ELSE [ok |-> TRUE, zi |-> <<step.out>>,
           W |-> step.vars \o <<d, X[1], X[2]>>, X |-> X]

\* NovaWitness::r1cs_instance_and_witness_with, for an assignment over
\* engine E's scalar field: the plain instance and witness of the
\* assignment; an assignment of the wrong size or one that does not
\* satisfy the shape is an error (mapped to UnSat by the callers).
r1cs_instance_and_witness_with(E, S, ck, cs) ==
  LET inst == [comm_W |-> commit(E, ck, cs.W), X |-> cs.X]
      w == [W |-> cs.W]
  IN IF Len(cs.W) = S.num_vars /\ Len(cs.W) <= Len(ck)
        /\ is_sat(E, S, ck, inst, w) = "Ok"
     THEN [ok |-> TRUE, u |-> inst, w |-> w]
     ELSE [ok |-> FALSE, u |-> inst, w |-> w]

(***************************************************************************)
(* RecursiveSNARK.                                                         *)
(***************************************************************************)
\* R1CSResult::default
R1CSResult_default(S) ==
  [AZ |-> Zeros(S.num_cons), BZ |-> Zeros(S.num_cons), CZ |-> Zeros(S.num_cons)]

\* The ResourceBuffer built by new for one side.
ResourceBuffer(E, S, r_U, r_W) ==
  [l_w |-> None, l_u |-> None,
   ABC_Z_1 |-> multiply_witness(S, r_W.W, r_U.u, r_U.X, ScalarOrder(E)),
   ABC_Z_2 |-> R1CSResult_default(S),
   T |-> Zeros(S.num_cons)]

\* What an operation returns: res is "Ok", the NovaError, or "Panic" when
\* the call aborts (expect / assert) instead of returning.
Ret(res, self) == [res |-> res, self |-> self]

(***************************************************************************)
(* RecursiveSNARK::new, from its last statement back to its first: each    *)
(* operator is the rest of the function body from one point on, given the  *)
(* values computed before that point.                                      *)
(***************************************************************************)
\* Fault injection: a new that leaves the first step to the first prove_step
\* and stores the initial inputs as the current outputs.
new_running_keeps_inputs(params, z0_primary, z0_secondary, cs_primary, uw_primary, cs_secondary, uw_secondary) ==
  IF ~uw_secondary.ok THEN Ret("Panic", None)
  ELSE IF Len(cs_primary.zi) # params.F_arity_primary
            \/ Len(cs_secondary.zi) # params.F_arity_secondary
  THEN Ret("Panic", None)
  ELSE
    LET r1cs_primary == params.circuit_shape_primary.r1cs_shape
        r1cs_secondary == params.circuit_shape_secondary.r1cs_shape
        r_W_primary == from_r1cs_witness(r1cs_primary, uw_primary.w)
        r_U_primary == from_r1cs_instance(uw_primary.u)
        r_W_secondary == RelaxedR1CSWitness_default(r1cs_secondary)
        r_U_secondary == RelaxedR1CSInstance_default(r1cs_secondary)
    IN Ret("Ok",
           Some([z0_primary |-> z0_primary,
                 z0_secondary |-> z0_secondary,
                 r_W_primary |-> r_W_primary,
                 r_U_primary |-> r_U_primary,
                 r_W_secondary |-> r_W_secondary,
                 r_U_secondary |-> r_U_secondary,
                 l_w_secondary |-> uw_secondary.w,
                 l_u_secondary |-> uw_secondary.u,
                 buffer_primary |->
                   ResourceBuffer("E1", r1cs_primary, r_U_primary, r_W_primary),
                 buffer_secondary |->
                   ResourceBuffer("E2", r1cs_secondary, r_U_secondary, r_W_secondary),
                 i |-> 0,
                 zi_primary |-> z0_primary,
                 zi_secondary |-> z0_secondary]))

\* the running pairs, the step-length assertion, the buffers, the value
new_running(params, z0_primary, z0_secondary, cs_primary, uw_primary, cs_secondary, uw_secondary) ==
  IF ~uw_secondary.ok THEN Ret("Panic", None)
  ELSE IF Len(cs_primary.zi) # params.F_arity_primary
            \/ Len(cs_secondary.zi) # params.F_arity_secondary
  THEN Ret("Panic", None)
  ELSE
    LET r1cs_primary == params.circuit_shape_primary.r1cs_shape
        r1cs_secondary == params.circuit_shape_secondary.r1cs_shape
        r_W_primary == from_r1cs_witness(r1cs_primary, uw_primary.w)
        r_U_primary == from_r1cs_instance(uw_primary.u)
        r_W_secondary == RelaxedR1CSWitness_default(r1cs_secondary)
        r_U_secondary == RelaxedR1CSInstance_default(r1cs_secondary)
    IN Ret("Ok",
           Some([z0_primary |-> z0_primary,
                 z0_secondary |-> z0_secondary,
                 r_W_primary |-> r_W_primary,
                 r_U_primary |-> r_U_primary,
                 r_W_secondary |-> r_W_secondary,
                 r_U_secondary |-> r_U_secondary,
                 l_w_secondary |-> uw_secondary.w,
                 l_u_secondary |-> uw_secondary.u,
                 buffer_primary |->
                   ResourceBuffer("E1", r1cs_primary, r_U_primary, r_W_primary),
                 buffer_secondary |->
                   ResourceBuffer("E2", r1cs_secondary, r_U_secondary, r_W_secondary),
                 i |-> 0,
                 zi_primary |-> cs_primary.zi,
                 zi_secondary |-> cs_secondary.zi]))

\* the instance and witness of the secondary base case
new_secondary_instance(params, z0_primary, z0_secondary, cs_primary, uw_primary, cs_secondary) ==
  IF ~cs_secondary.ok THEN Ret("Panic", None)
  ELSE new_running(params, z0_primary, z0_secondary, cs_primary, uw_primary,
         cs_secondary,
         r1cs_instance_and_witness_with(
           "E2", params.circuit_shape_secondary.r1cs_shape, params.ck_secondary,
           cs_secondary))

\* Fault injection: the secondary base case is not given the primary instance.
new_secondary_without_primary_instance(params, c_secondary, z0_primary, z0_secondary, cs_primary, uw_primary) ==
  IF ~uw_primary.ok THEN Ret("Panic", None)
  ELSE new_secondary_instance(params, z0_primary, z0_secondary, cs_primary,
         uw_primary,
         NovaAugmentedCircuit_synthesize(
           "E1", params.augmented_circuit_params_secondary,
           NovaAugmentedCircuitInputs(digest(params), 0, z0_secondary, None, None,
                                      None, None),
           c_secondary, params.ro_consts_circuit_secondary))

\* base case for the secondary
new_secondary(params, c_secondary, z0_primary, z0_secondary, cs_primary, uw_primary) ==
  IF ~uw_primary.ok THEN Ret("Panic", None)
  ELSE new_secondary_instance(params, z0_primary, z0_secondary, cs_primary,
         uw_primary,
         NovaAugmentedCircuit_synthesize(
           "E1", params.augmented_circuit_params_secondary,
           NovaAugmentedCircuitInputs(digest(params), 0, z0_secondary, None, None,
                                      Some(uw_primary.u), None),
           c_secondary, params.ro_consts_circuit_secondary))

\* the instance and witness of the primary base case
new_primary_instance(params, c_secondary, z0_primary, z0_secondary, cs_primary) ==
  IF ~cs_primary.ok THEN Ret("Panic", None)
  ELSE new_secondary(params, c_secondary, z0_primary, z0_secondary, cs_primary,
         r1cs_instance_and_witness_with(
           "E1", params.circuit_shape_primary.r1cs_shape, params.ck_primary,
           cs_primary))

\* base case for the primary
new_primary(params, c_primary, c_secondary, z0_primary, z0_secondary) ==
  new_primary_instance(params, c_secondary, z0_primary, z0_secondary,
    NovaAugmentedCircuit_synthesize(
      "E2", params.augmented_circuit_params_primary,
      NovaAugmentedCircuitInputs(scalar_as_base("E1", digest(params)), 0,
                                 z0_primary, None, None, None, None),
      c_primary, params.ro_consts_circuit_primary))

\* Fault injection: the lengths of the initial inputs are checked after the
\* base cases were synthesized.
new_checks_lengths_last(params, c_primary, c_secondary, z0_primary, z0_secondary) ==
  LET r == new_primary(params, c_primary, c_secondary, z0_primary, z0_secondary)
  IN IF r.res = "Panic" THEN r
     ELSE IF Len(z0_primary) # params.F_arity_primary
               \/ Len(z0_secondary) # params.F_arity_secondary
     THEN Ret("InvalidInitialInputLength", None)
     ELSE r

\* RecursiveSNARK::new: the lengths of the initial inputs are checked first
new(params, c_primary, c_secondary, z0_primary, z0_secondary) ==
  IF Len(z0_primary) # params.F_arity_primary
       \/ Len(z0_secondary) # params.F_arity_secondary
  THEN Ret("InvalidInitialInputLength", None)
  ELSE new_primary(params, c_primary, c_secondary, z0_primary, z0_secondary)

\* Fault injection: an update that leaves the step counter as it was.
prove_step_update_keeps_count(self, self2, cs_primary, cs_secondary, uw_secondary) ==
  IF ~uw_secondary.ok THEN Ret("UnSat", self2)
  ELSE Ret("Ok", [self2 EXCEPT !.zi_primary = cs_primary.zi,
                               !.zi_secondary = cs_secondary.zi,
                               !.l_u_secondary = uw_secondary.u,
                               !.l_w_secondary = uw_secondary.w])

(***************************************************************************)
(* RecursiveSNARK::prove_step, from its last statement back to its first:  *)
(* each operator is the rest of the function body from one point on, given *)
(* the values computed before that point.  self is the RecursiveSNARK on   *)
(* entry, self1 after the fold of the secondary pair, self2 after the fold *)
(* of the primary pair; the result holds it as the call leaves it.         *)
(***************************************************************************)
\* Fault injection: the update that forgets to store the secondary outputs.
prove_step_update_stale_zi(self, self2, cs_primary, cs_secondary, uw_secondary) ==
  IF ~uw_secondary.ok THEN Ret("UnSat", self2)
  ELSE Ret("Ok", [self2 EXCEPT !.zi_primary = cs_primary.zi,
                               !.l_u_secondary = uw_secondary.u,
                               !.l_w_secondary = uw_secondary.w,
                               !.i = self.i + 1])

\* update the running instances and witnesses
prove_step_update(self, self2, cs_primary, cs_secondary, uw_secondary) ==
  IF ~uw_secondary.ok THEN Ret("UnSat", self2)
  ELSE Ret("Ok", [self2 EXCEPT !.zi_primary = cs_primary.zi,
                               !.zi_secondary = cs_secondary.zi,
                               !.l_u_secondary = uw_secondary.u,
                               !.l_w_secondary = uw_secondary.w,
                               !.i = self.i + 1])

\* the instance and witness of the secondary circuit
prove_step_secondary_instance(self, self2, params, cs_primary, cs_secondary) ==
  IF ~cs_secondary.ok THEN Ret("SynthesisError", self2)
  ELSE prove_step_update(self, self2, cs_primary, cs_secondary,
         r1cs_instance_and_witness_with(
           "E2", params.circuit_shape_secondary.r1cs_shape, params.ck_secondary,
           cs_secondary))

\* Fault injection: the folded primary instance is written but the folded
\* primary witness is not.
prove_step_secondary_keeps_witness(self, self1, params, c_secondary, r_U_primary_i, cs_primary, uw_primary, nifs_primary) ==
  LET self2 == [self1 EXCEPT !.r_U_primary = nifs_primary.U,
                             !.buffer_primary = nifs_primary.buffer]
      comm_T_primary == decompress("E1", nifs_primary.comm_T)
      inputs_secondary ==
        NovaAugmentedCircuitInputs(digest(params), ScalarFrom("E2", self.i),
                                   self.z0_secondary, Some(self.zi_secondary),
                                   Some(r_U_primary_i), Some(uw_primary.u),
                                   Some(comm_T_primary.val))
  IN IF ~nifs_primary.ok THEN Ret("Panic", self1)
     ELSE IF ~comm_T_primary.ok THEN Ret("InvalidCommitment", self2)
     ELSE prove_step_secondary_instance(self, self2, params, cs_primary,
            NovaAugmentedCircuit_synthesize(
              "E1", params.augmented_circuit_params_secondary, inputs_secondary,
              c_secondary, params.ro_consts_circuit_secondary))

\* the folded primary pair is written; synthesize the secondary circuit
prove_step_secondary(self, self1, params, c_secondary, r_U_primary_i, cs_primary, uw_primary, nifs_primary) ==
  LET self2 == [self1 EXCEPT !.r_U_primary = nifs_primary.U,
                             !.r_W_primary = nifs_primary.W,
                             !.buffer_primary = nifs_primary.buffer]
      comm_T_primary == decompress("E1", nifs_primary.comm_T)
      inputs_secondary ==
        NovaAugmentedCircuitInputs(digest(params), ScalarFrom("E2", self.i),
                                   self.z0_secondary, Some(self.zi_secondary),
                                   Some(r_U_primary_i), Some(uw_primary.u),
                                   Some(comm_T_primary.val))
  IN IF ~nifs_primary.ok THEN Ret("Panic", self1)
     ELSE IF ~comm_T_primary.ok THEN Ret("InvalidCommitment", self2)
     ELSE prove_step_secondary_instance(self, self2, params, cs_primary,
            NovaAugmentedCircuit_synthesize(
              "E1", params.augmented_circuit_params_secondary, inputs_secondary,
              c_secondary, params.ro_consts_circuit_secondary))

\* fold the primary circuit's instance (in place)
prove_step_fold_primary(self, self1, params, c_secondary, r_U_primary_i, cs_primary, uw_primary) ==
  IF ~uw_primary.ok THEN Ret("Panic", self1)
  ELSE prove_step_secondary(self, self1, params, c_secondary, r_U_primary_i,
         cs_primary, uw_primary,
         NIFS_prove_mut("E1", params.ck_primary, params.ro_consts_primary,
                        digest(params), params.circuit_shape_primary.r1cs_shape,
                        self1.r_U_primary, self1.r_W_primary,
                        uw_primary.u, uw_primary.w, self1.buffer_primary))

\* the instance and witness of the primary circuit
prove_step_primary_instance(self, self1, params, c_secondary, r_U_primary_i, cs_primary) ==
  IF ~cs_primary.ok THEN Ret("SynthesisError", self1)
  ELSE prove_step_fold_primary(self, self1, params, c_secondary, r_U_primary_i,
         cs_primary,
         r1cs_instance_and_witness_with(
           "E1", params.circuit_shape_primary.r1cs_shape, params.ck_primary,
           cs_primary))

\* the folded secondary pair is written; synthesize the primary circuit
prove_step_primary(self, params, c_primary, c_secondary, r_U_primary_i, r_U_secondary_i, l_u_secondary_i, nifs_secondary) ==
  LET self1 == [self EXCEPT !.r_U_secondary = nifs_secondary.U,
                            !.r_W_secondary = nifs_secondary.W,
                            !.buffer_secondary = nifs_secondary.buffer]
      comm_T_secondary == decompress("E2", nifs_secondary.comm_T)
      inputs_primary ==
        NovaAugmentedCircuitInputs(scalar_as_base("E1", digest(params)),
                                   ScalarFrom("E1", self.i),
                                   self.z0_primary, Some(self.zi_primary),
                                   Some(r_U_secondary_i), Some(l_u_secondary_i),
                                   Some(comm_T_secondary.val))
  IN IF ~nifs_secondary.ok THEN Ret("Panic", self)
     ELSE IF ~comm_T_secondary.ok THEN Ret("InvalidCommitment", self1)
     ELSE prove_step_primary_instance(self, self1, params, c_secondary,
            r_U_primary_i,
            NovaAugmentedCircuit_synthesize(
              "E2", params.augmented_circuit_params_primary, inputs_primary,
              c_primary, params.ro_consts_circuit_primary))

\* save the inputs before proceeding to the i+1 th step, then fold the
\* secondary circuit's instance (in place)
prove_step_fold_secondary(self, params, c_primary, c_secondary) ==
  prove_step_primary(self, params, c_primary, c_secondary,
    self.r_U_primary, self.r_U_secondary, self.l_u_secondary,
    NIFS_prove_mut("E2", params.ck_secondary, params.ro_consts_secondary,
                   scalar_as_base("E1", digest(params)),
                   params.circuit_shape_secondary.r1cs_shape,
                   self.r_U_secondary, self.r_W_secondary,
                   self.l_u_secondary, self.l_w_secondary, self.buffer_secondary))

\* Fault injection: prove_step without its early return at i = 0.
prove_step_always_folds(self, params, c_primary, c_secondary) ==
  prove_step_fold_secondary(self, params, c_primary, c_secondary)

\* RecursiveSNARK::prove_step: the first step was already done in the constructor
prove_step(self, params, c_primary, c_secondary) ==
  IF self.i = 0 THEN Ret("Ok", [self EXCEPT !.i = 1])
  ELSE prove_step_fold_secondary(self, params, c_primary, c_secondary)

\* What verify returns: res and, when Ok, the pair (zi_primary, zi_secondary).
VerifyRet(res, zn) == [res |-> res, zn |-> zn]

\* The first hash verify recomputes (over the secondary RO constants).
verify_hash_primary(self, params, num_steps, z0_primary) ==
  RO_hash(params.ro_consts_secondary,
          NUM_FE_WITHOUT_IO_FOR_CRHF + 2 * params.F_arity_primary,
          <<digest(params), ScalarFrom("E1", num_steps)>> \o z0_primary
            \o self.zi_primary \o absorb_relaxed(self.r_U_secondary),
          NUM_HASH_BITS)

\* The second hash verify recomputes (over the primary RO constants).
verify_hash_secondary(self, params, num_steps, z0_secondary) ==
  RO_hash(params.ro_consts_primary,
          NUM_FE_WITHOUT_IO_FOR_CRHF + 2 * params.F_arity_secondary,
          <<scalar_as_base("E1", digest(params)), ScalarFrom("E2", num_steps)>>
            \o z0_secondary \o self.zi_secondary
            \o absorb_relaxed(self.r_U_primary),
          NUM_HASH_BITS)

\* Fault injection: the three pairs are checked before the hashes are compared.
verify_checks_sat_first(self, params, num_steps, z0_primary, z0_secondary) ==
  LET hash_primary == verify_hash_primary(self, params, num_steps, z0_primary)
      hash_secondary == verify_hash_secondary(self, params, num_steps, z0_secondary)
      res_r_primary ==
        is_sat_relaxed("E1", params.circuit_shape_primary.r1cs_shape,
                       params.ck_primary, self.r_U_primary, self.r_W_primary)
      res_r_secondary ==
        is_sat_relaxed("E2", params.circuit_shape_secondary.r1cs_shape,
                       params.ck_secondary, self.r_U_secondary, self.r_W_secondary)
      res_l_secondary ==
        is_sat("E2", params.circuit_shape_secondary.r1cs_shape,
               params.ck_secondary, self.l_u_secondary, self.l_w_secondary)
  IN IF res_r_primary # "Ok" THEN VerifyRet(res_r_primary, <<>>)
     ELSE IF res_r_secondary # "Ok" THEN VerifyRet(res_r_secondary, <<>>)
     ELSE IF res_l_secondary # "Ok" THEN VerifyRet(res_l_secondary, <<>>)
     ELSE IF hash_primary # self.l_u_secondary.X[1]
               \/ hash_secondary # scalar_as_base("E2", self.l_u_secondary.X[2])
     THEN VerifyRet("ProofVerifyError", <<>>)
     ELSE VerifyRet("Ok", <<self.zi_primary, self.zi_secondary>>)

\* Fault injection: a pair that is not satisfying is reported with the error
\* of the hash comparison.
verify_checks_one_error(self, params, num_steps, z0_primary, z0_secondary) ==
  IF verify_hash_primary(self, params, num_steps, z0_primary)
       # self.l_u_secondary.X[1]
     \/ verify_hash_secondary(self, params, num_steps, z0_secondary)
       # scalar_as_base("E2", self.l_u_secondary.X[2])
     \/ verify_checks_sat_first(self, params, num_steps, z0_primary, z0_secondary).res
       # "Ok"
  THEN VerifyRet("ProofVerifyError", <<>>)
  ELSE VerifyRet("Ok", <<self.zi_primary, self.zi_secondary>>)

\* RecursiveSNARK::verify past its parameter checks: the two hashes are
\* compared with the outputs of l_u_secondary, then the three pairs are
\* checked (in parallel; the first error in the order primary running,
\* secondary running, secondary pending is the one returned).
verify_checks(self, params, num_steps, z0_primary, z0_secondary) ==
  LET hash_primary == verify_hash_primary(self, params, num_steps, z0_primary)
      hash_secondary == verify_hash_secondary(self, params, num_steps, z0_secondary)
      res_r_primary ==
        is_sat_relaxed("E1", params.circuit_shape_primary.r1cs_shape,
                       params.ck_primary, self.r_U_primary, self.r_W_primary)
      res_r_secondary ==
        is_sat_relaxed("E2", params.circuit_shape_secondary.r1cs_shape,
                       params.ck_secondary, self.r_U_secondary, self.r_W_secondary)
      res_l_secondary ==
        is_sat("E2", params.circuit_shape_secondary.r1cs_shape,
               params.ck_secondary, self.l_u_secondary, self.l_w_secondary)
  IN IF hash_primary # self.l_u_secondary.X[1]
          \/ hash_secondary # scalar_as_base("E2", self.l_u_secondary.X[2])
     THEN VerifyRet("ProofVerifyError", <<>>)
     ELSE IF res_r_primary # "Ok" THEN VerifyRet(res_r_primary, <<>>)
     ELSE IF res_r_secondary # "Ok" THEN VerifyRet(res_r_secondary, <<>>)
     ELSE IF res_l_secondary # "Ok" THEN VerifyRet(res_l_secondary, <<>>)
     ELSE VerifyRet("Ok", <<self.zi_primary, self.zi_secondary>>)

\* Fault injection: verify without the check of the lengths of the public
\* IO vectors; indexing a short l_u_secondary.X is then out of bounds.
verify_unchecked_lengths(self, params, num_steps, z0_primary, z0_secondary) ==
  IF num_steps = 0 \/ self.i # num_steps
       \/ self.z0_primary # z0_primary \/ self.z0_secondary # z0_secondary
  THEN VerifyRet("ProofVerifyError", <<>>)
  ELSE IF Len(self.l_u_secondary.X) < 2 THEN VerifyRet("Panic", <<>>)
  ELSE verify_checks(self, params, num_steps, z0_primary, z0_secondary)

\* RecursiveSNARK::verify
verify(self, params, num_steps, z0_primary, z0_secondary) ==
  LET is_num_steps_zero == num_steps = 0
      is_num_steps_not_match == self.i # num_steps
      is_inputs_not_match ==
        self.z0_primary # z0_primary \/ self.z0_secondary # z0_secondary
      is_instance_has_two_outpus ==
        \/ Len(self.l_u_secondary.X) # 2
        \/ Len(self.r_U_primary.X) # 2
        \/ Len(self.r_U_secondary.X) # 2
  IN IF is_num_steps_zero \/ is_num_steps_not_match \/ is_inputs_not_match
          \/ is_instance_has_two_outpus
     THEN VerifyRet("ProofVerifyError", <<>>)
     ELSE verify_checks(self, params, num_steps, z0_primary, z0_secondary)

\* Whether verify gets as far as calling pp.digest().
verify_reads_digest(self, num_steps, z0_primary, z0_secondary) ==
  /\ num_steps # 0 /\ self.i = num_steps
  /\ self.z0_primary = z0_primary /\ self.z0_secondary = z0_secondary
  /\ Len(self.l_u_secondary.X) = 2
  /\ Len(self.r_U_primary.X) = 2
  /\ Len(self.r_U_secondary.X) = 2

(***************************************************************************)
(* A proof altered between proving and verifying: RecursiveSNARK is        *)
(* Serialize + Deserialize, so a verifier may be handed any value of the   *)
(* type.  One field is altered: an entry is moved to the next field        *)
(* element, or a vector loses its last entry.                              *)
(***************************************************************************)
Next1(E, x) == (x + 1) % ScalarOrder(E)

DropLast(v) == SubSeq(v, 1, Len(v) - 1)

\* The alterations of fields that go into the two recursion hashes.
HashedFields ==
  {"zi_primary", "zi_secondary",
   "r_U_primary.comm_W", "r_U_primary.comm_E", "r_U_primary.u",
   "r_U_primary.X0", "r_U_primary.X1",
   "r_U_secondary.comm_W", "r_U_secondary.comm_E", "r_U_secondary.u",
   "r_U_secondary.X0", "r_U_secondary.X1"}

\* The alterations of the length of a public IO vector.
LengthFields == {"l_u_secondary.X.len", "r_U_primary.X.len", "r_U_secondary.X.len"}

\* The alterations of a witness.
WitnessFields == {"r_W_primary.W", "r_W_primary.E", "r_W_secondary.W",
                  "r_W_secondary.E", "l_w_secondary.W"}

TamperFields == HashedFields \cup LengthFields \cup WitnessFields

tamper(self, field) ==
  CASE field = "zi_primary" ->
         [self EXCEPT !.zi_primary[1] = Next1("E1", @)]
    [] field = "zi_secondary" ->
         [self EXCEPT !.zi_secondary[1] = Next1("E2", @)]
    [] field = "r_U_primary.comm_W" ->
         [self EXCEPT !.r_U_primary.comm_W = Next1("E1", @)]
    [] field = "r_U_primary.comm_E" ->
         [self EXCEPT !.r_U_primary.comm_E = Next1("E1", @)]
    [] field = "r_U_primary.u" ->
         [self EXCEPT !.r_U_primary.u = Next1("E1", @)]
    [] field = "r_U_primary.X0" ->
         [self EXCEPT !.r_U_primary.X[1] = Next1("E1", @)]
    [] field = "r_U_primary.X1" ->
         [self EXCEPT !.r_U_primary.X[2] = Next1("E1", @)]
    [] field = "r_U_secondary.comm_W" ->
         [self EXCEPT !.r_U_secondary.comm_W = Next1("E2", @)]
    [] field = "r_U_secondary.comm_E" ->
         [self EXCEPT !.r_U_secondary.comm_E = Next1("E2", @)]
    [] field = "r_U_secondary.u" ->
         [self EXCEPT !.r_U_secondary.u = Next1("E2", @)]
    [] field = "r_U_secondary.X0" ->
         [self EXCEPT !.r_U_secondary.X[1] = Next1("E2", @)]
    [] field = "r_U_secondary.X1" ->
         [self EXCEPT !.r_U_secondary.X[2] = Next1("E2", @)]
    [] field = "l_u_secondary.X.len" ->
         [self EXCEPT !.l_u_secondary.X = DropLast(@)]
    [] field = "r_U_primary.X.len" ->
         [self EXCEPT !.r_U_primary.X = DropLast(@)]
    [] field = "r_U_secondary.X.len" ->
         [self EXCEPT !.r_U_secondary.X = DropLast(@)]
    [] field = "r_W_primary.W" ->
         [self EXCEPT !.r_W_primary.W[1] = Next1("E1", @)]
    [] field = "r_W_primary.E" ->
         [self EXCEPT !.r_W_primary.E[1] = Next1("E1", @)]
    [] field = "r_W_secondary.W" ->
         [self EXCEPT !.r_W_secondary.W[1] = Next1("E2", @)]
    [] field = "r_W_secondary.E" ->
         [self EXCEPT !.r_W_secondary.E[1] = Next1("E2", @)]
    [] field = "l_w_secondary.W" ->
         [self EXCEPT !.l_w_secondary.W[1] = Next1("E2", @)]

(***************************************************************************)
(* The state machine: one prover session over one PublicParams.            *)
(***************************************************************************)
\* The (primary, secondary) step circuit types of the tests.
CircuitTypes ==
  {<<"Trivial", "Trivial">>, <<"Trivial", "Cubic">>,
   <<"FifthRoot", "Trivial">>, <<"Cubic", "Trivial">>}

\* The commitment-key hints: none (default_ck_hint) or a ppsnark's ck_floor.
Hints == {"default", "ppsnark"}

\* The advice tried for an input x of FifthRootCheckingCircuit: the fifth
\* roots of x and, for each, the next field element (a wrong advice).
Advice(E, x) ==
  LET P == ScalarOrder(E)
      roots == {y \in 0..(P - 1) : (y * y * y * y * y) % P = x % P}
  IN roots \cup {(y + 1) % P : y \in roots}

\* The circuit values of a type over engine E's scalar field, for input z.
Circuits(kind, E, z) ==
  {[kind |-> kind, y |-> y, fail |-> f] :
     y \in (IF kind = "FifthRoot" /\ Len(z) > 0 THEN Advice(E, z[1]) ELSE {0}),
     f \in BOOLEAN}

\* A circuit value that is only used to derive the shape.
ShapeCircuit(kind) == [kind |-> kind, y |-> 0, fail |-> FALSE]

\* The initial inputs tried: two of the right length and one too short.
Z0Inputs == {<<0>>, <<1>>, <<>>}

\* The initial inputs a verifier supplies.
Z0Claimed == {<<0>>, <<1>>}

\* The record kept of the last operation.
\* (i is the step counter a prove_step call found).
Last(op, res, zn, i, num_steps, z0_primary, z0_secondary, c_primary, c_secondary, field) ==
  [op |-> op, res |-> res, zn |-> zn, i |-> i, num_steps |-> num_steps,
   z0_primary |-> z0_primary, z0_secondary |-> z0_secondary,
   c_primary |-> c_primary, c_secondary |-> c_secondary, field |-> field]

\* The direct computation of one step of both circuits (the tests' output).
direct_step(c_primary, c_secondary, z) ==
  << <<output(c_primary.kind, c_primary.y, z[1][1], P1)>>,
     <<output(c_secondary.kind, c_secondary.y, z[2][1], P2)>> >>

Init ==
  /\ built = <<>>
  /\ digests = <<>>
  /\ compressed = <<>>
  /\ threads = <<>>
  /\ frame = <<>>
  /\ \E t \in CircuitTypes, h \in Hints :
       /\ pp = setup(ShapeCircuit(t[1]), ShapeCircuit(t[2]), h, h)
       /\ vpp = pp
  /\ rs = None
  /\ last = Last("setup", "Ok", <<>>, 0, 0, <<>>, <<>>,
                 ShapeCircuit("Trivial"), ShapeCircuit("Trivial"), "")
  /\ zn_direct = <<>>
  /\ tampered = ""
  /\ failed = FALSE

\* A call that panicked ended the session.
Running == last.res # "Panic"

\* RecursiveSNARK::new(&pp, &c_primary, &c_secondary, &z0_primary, &z0_secondary),
\* called once, after setup.
New(c_primary, c_secondary, z0_primary, z0_secondary) ==
  /\ last.op = "setup"
  /\ LET r == new(pp, c_primary, c_secondary, z0_primary, z0_secondary)
     IN /\ rs' = r.self
        /\ pp' = IF r.res = "InvalidInitialInputLength" THEN pp ELSE digest_init(pp)
        /\ last' = Last("new", r.res, <<>>, 0, 0, z0_primary, z0_secondary,
                        c_primary, c_secondary, "")
        /\ zn_direct' = IF r.res = "Ok"
                        THEN direct_step(c_primary, c_secondary,
                                         <<z0_primary, z0_secondary>>)
                        ELSE zn_direct
  /\ UNCHANGED <<tampered, failed, built, digests, vpp, compressed, threads, frame>>

\* recursive_snark.prove_step(&pp, &c_primary, &c_secondary), on a proof
\* that was not altered, until a call fails.  The first call (i = 0) makes
\* the outputs computed by new current; the later ones compute a step.
ProveStep(c_primary, c_secondary) ==
  /\ Running
  /\ rs # None
  /\ tampered = ""
  /\ ~failed
  /\ rs[1].i < MaxSteps
  /\ LET r == prove_step(rs[1], pp, c_primary, c_secondary)
     IN /\ rs' = Some(r.self)
        /\ pp' = IF rs[1].i = 0 THEN pp ELSE digest_init(pp)
        /\ last' = Last("prove_step", r.res, <<>>, rs[1].i, 0, <<>>, <<>>,
                        c_primary, c_secondary, "")
        /\ zn_direct' = IF r.res = "Ok" /\ rs[1].i > 0
                        THEN direct_step(c_primary, c_secondary, zn_direct)
                        ELSE zn_direct
        /\ failed' = (r.res \notin {"Ok", "Panic"})
  /\ UNCHANGED <<tampered, built, digests, vpp, compressed, threads, frame>>

\* recursive_snark.verify(&pp, num_steps, &z0_primary, &z0_secondary).
\* verify takes &self and the digest cell of pp is set since new: a second
\* verify in a row sees the state the first one saw, so one is followed.
Verify(num_steps, z0_primary, z0_secondary) ==
  /\ Running
  /\ rs # None
  /\ last.op # "verify"
  /\ LET r == verify(rs[1], pp, num_steps, z0_primary, z0_secondary)
     IN /\ last' = Last("verify", r.res, r.zn, 0, num_steps, z0_primary, z0_secondary,
                        ShapeCircuit("Trivial"), ShapeCircuit("Trivial"), "")
        /\ pp' = IF verify_reads_digest(rs[1], num_steps, z0_primary, z0_secondary)
                 THEN digest_init(pp) ELSE pp
  /\ UNCHANGED <<rs, zn_direct, tampered, failed, built, digests, vpp, compressed, threads, frame>>

\* The proof produced by a successful prove_step goes through serialization
\* and one field comes back altered.
Tamper(field) ==
  /\ rs # None
  /\ tampered = ""
  /\ last.op = "prove_step" /\ last.res = "Ok"
  /\ rs' = Some(tamper(rs[1], field))
  /\ tampered' = field
  /\ last' = Last("tamper", "Ok", <<>>, 0, 0, <<>>, <<>>,
                  ShapeCircuit("Trivial"), ShapeCircuit("Trivial"), field)
  /\ UNCHANGED <<pp, zn_direct, failed, built, digests, vpp, compressed, threads, frame>>

Next ==
  \/ \E z0p \in Z0Inputs, z0s \in Z0Inputs :
       \E c1 \in Circuits(pp.types[1], "E1", z0p),
          c2 \in Circuits(pp.types[2], "E2", z0s) : New(c1, c2, z0p, z0s)
  \/ /\ rs # None
     /\ \E c1 \in Circuits(pp.types[1], "E1", rs[1].zi_primary),
           c2 \in Circuits(pp.types[2], "E2", rs[1].zi_secondary) : ProveStep(c1, c2)
  \/ \E n \in 0..MaxSteps, z0p \in Z0Claimed, z0s \in Z0Claimed : Verify(n, z0p, z0s)
  \/ \E f \in TamperFields : Tamper(f)

Spec == Init /\ [][Next]_vars

(***************************************************************************)
(* A second state machine: PublicParams objects built side by side by      *)
(* setup, and digest() called on them (test_pp_digest).                    *)
(***************************************************************************)
InitDigest ==
  /\ built = <<>>
  /\ digests = <<>>
  /\ compressed = <<>>
  /\ threads = <<>>
  /\ frame = <<>>
  /\ pp = setup(ShapeCircuit("Trivial"), ShapeCircuit("Trivial"), "default", "default")
  /\ vpp = pp
  /\ rs = None
  /\ last = Last("setup", "Ok", <<>>, 0, 0, <<>>, <<>>,
                 ShapeCircuit("Trivial"), ShapeCircuit("Trivial"), "")
  /\ zn_direct = <<>>
  /\ tampered = ""
  /\ failed = FALSE

\* PublicParams::setup(&c_primary, &c_secondary, ck_hint1, ck_hint2)
Setup(c_primary, c_secondary, ck_hint1, ck_hint2) ==
  /\ Len(built) < MaxParams
  /\ built' = Append(built,
                      [pp |-> setup(c_primary, c_secondary, ck_hint1, ck_hint2),
                       args |-> <<c_primary, c_secondary, ck_hint1, ck_hint2>>])
  /\ digests' = Append(digests, <<>>)
  /\ UNCHANGED <<pp, rs, last, zn_direct, tampered, failed, vpp, compressed, threads, frame>>

\* built[k].pp.digest(): the value is returned and the cell keeps it
Digest(k) ==
  /\ Len(digests[k]) < MaxDigestCalls
  /\ digests' = [digests EXCEPT ![k] = Append(@, digest(built[k].pp))]
  /\ built' = [built EXCEPT ![k].pp = digest_init(@)]
  /\ UNCHANGED <<pp, rs, last, zn_direct, tampered, failed, vpp, compressed, threads, frame>>

NextDigest ==
  \/ \E t \in CircuitTypes, h \in Hints :
       Setup(ShapeCircuit(t[1]), ShapeCircuit(t[2]), h, h)
  \/ \E k \in DOMAIN built : Digest(k)

SpecDigest == InitDigest /\ [][NextDigest]_vars

(***************************************************************************)
(* Properties.                                                             *)
(***************************************************************************)
\* The RecursiveSNARK is what new and successful prove_step calls made it.
Clean == rs # None /\ Running /\ tampered = "" /\ ~failed

\* The tests' loop: the step circuit's output applied k times to x.
RECURSIVE iterate(_, _, _, _)
iterate(kind, x, k, P) ==
  IF k = 0 THEN x ELSE output(kind, 0, iterate(kind, x, k - 1, P), P)

\* x raised to the fifth power k times over.
RECURSIVE fifth_powers(_, _, _)
fifth_powers(x, k, P) ==
  IF k = 0 THEN x
  ELSE LET y == fifth_powers(x, k - 1, P) IN (y * y * y * y * y) % P

\* C1: after new and k >= 1 successful prove_step calls, verify(pp, k, z0)
\* returns Ok with the outputs of applying each step circuit k times to its
\* initial input: the directly computed outputs, which for the circuits
\* without advice are the k-fold iterates and for the fifth-root circuit lead
\* back to the initial input when raised to the fifth power k times.
C1_VerifyReturnsTheIterates ==
  (Clean /\ rs[1].i >= 1) =>
    LET k == rs[1].i
        r == verify(rs[1], pp, k, rs[1].z0_primary, rs[1].z0_secondary)
    IN /\ r.res = "Ok"
       /\ r.zn = zn_direct
       /\ r.zn[2] = <<iterate(pp.types[2], rs[1].z0_secondary[1], k, P2)>>
       /\ IF pp.types[1] = "FifthRoot"
          THEN fifth_powers(r.zn[1][1], k, P1) = rs[1].z0_primary[1]
          ELSE r.zn[1] = <<iterate(pp.types[1], rs[1].z0_primary[1], k, P1)>>

\* Three steps of the cubic circuit from 0 were proved and verify returned
\* 2460515 (in the secondary field).
C1_Witness ==
  /\ Clean /\ rs[1].i = 3
  /\ pp.types = <<"Trivial", "Cubic">>
  /\ last.op = "verify" /\ last.res = "Ok" /\ last.num_steps = 3
  /\ last.z0_primary = <<1>> /\ last.z0_secondary = <<0>>
  /\ last.zn = << <<1>>, <<2460515 % P2>> >>

\* C2: verify returns ProofVerifyError whenever num_steps is 0, or differs
\* from the stored i, or a supplied z0 differs from the stored one, or one
\* of l_u_secondary.X, r_U_primary.X, r_U_secondary.X has not length 2; so
\* a RecursiveSNARK with i = 0 is rejected for every num_steps.
C2_VerifyRejectsBadParameters ==
  rs # None =>
    \A n \in 0..MaxSteps, z0p \in Z0Inputs, z0s \in Z0Inputs :
      ( \/ n = 0
        \/ n # rs[1].i
        \/ z0p # rs[1].z0_primary
        \/ z0s # rs[1].z0_secondary
        \/ Len(rs[1].l_u_secondary.X) # 2
        \/ Len(rs[1].r_U_primary.X) # 2
        \/ Len(rs[1].r_U_secondary.X) # 2
        \/ rs[1].i = 0 )
      => verify(rs[1], pp, n, z0p, z0s).res = "ProofVerifyError"

\* verify was called with the right num_steps and z0 on a proof whose
\* l_u_secondary.X had lost an entry, and returned ProofVerifyError.
C2_Witness ==
  /\ rs # None /\ tampered = "l_u_secondary.X.len"
  /\ Len(rs[1].l_u_secondary.X) = 1
  /\ last.op = "verify" /\ last.res = "ProofVerifyError"
  /\ last.num_steps = rs[1].i /\ last.num_steps >= 1
  /\ last.z0_primary = rs[1].z0_primary /\ last.z0_secondary = rs[1].z0_secondary

\* C3: a prove_step call that finds i = 0 returns Ok, sets i to 1 and leaves
\* every other field of the RecursiveSNARK as it was, whatever the circuits
\* it is given (nothing is folded, no circuit is synthesized).
C3_FirstProveStepOnlyCounts ==
  [][(last'.op = "prove_step" /\ rs # None /\ rs[1].i = 0)
       => (last'.res = "Ok" /\ rs' = Some([rs[1] EXCEPT !.i = 1]))]_vars

\* The first prove_step was given a primary circuit whose synthesis fails,
\* and returned Ok with i = 1.
C3_Witness ==
  /\ rs # None /\ rs[1].i = 1
  /\ last.op = "prove_step" /\ last.i = 0 /\ last.res = "Ok"
  /\ last.c_primary.fail

\* C4: a prove_step call that returns an error leaves the RecursiveSNARK
\* exactly as it found it.
C4_FailedProveStepChangesNothing ==
  [][(last'.op = "prove_step" /\ last'.res \notin {"Ok", "Panic"}) => rs' = rs]_vars

\* C5: new returns InvalidInitialInputLength when the length of z0_primary
\* or of z0_secondary differs from the arity recorded in the public
\* parameters, whatever the circuits (none is synthesized: the digest, which
\* the first synthesis needs, is not yet computed) and no RecursiveSNARK is
\* produced.
C5_NewChecksTheInputLengths ==
  (last.op = "new"
     /\ (Len(last.z0_primary) # pp.F_arity_primary
           \/ Len(last.z0_secondary) # pp.F_arity_secondary))
  => (last.res = "InvalidInitialInputLength" /\ rs = None /\ pp.digest = None)

\* new was called with an empty z0_primary and a primary circuit whose
\* synthesis fails, and returned InvalidInitialInputLength.
C5_Witness ==
  /\ last.op = "new" /\ last.z0_primary = <<>> /\ last.c_primary.fail
  /\ last.res = "InvalidInitialInputLength" /\ rs = None

\* The call reached the synthesis of a circuit whose synthesis fails: the
\* primary circuit, or the secondary one after a primary one that went
\* through (the fifth-root circuit with a wrong advice does not).
SynthesisFailed ==
  /\ \/ last.op = "new" /\ Len(last.z0_primary) = pp.F_arity_primary
                        /\ Len(last.z0_secondary) = pp.F_arity_secondary
     \/ last.op = "prove_step" /\ last.i >= 1
  /\ \/ last.c_primary.fail
     \/ last.c_secondary.fail /\ pp.types[1] # "FifthRoot"

\* C6: new and prove_step return SynthesisError to the caller when the
\* synthesis of the primary or of the secondary circuit fails; neither aborts.
C6_SynthesisErrorIsReturned ==
  SynthesisFailed => last.res = "SynthesisError"

\* C7: once a field that goes into the recursion hashes (an entry of
\* zi_primary or zi_secondary, a component of r_U_primary or r_U_secondary)
\* of a proof that verifies for k steps is changed, verify(pp, k, z0) returns
\* ProofVerifyError.
C7_HashBinding ==
  (rs # None /\ tampered \in HashedFields) =>
    verify(rs[1], pp, rs[1].i, rs[1].z0_primary, rs[1].z0_secondary).res
      = "ProofVerifyError"

\* r_U_primary.u of a two-step proof was raised by one and verify, called
\* with the right num_steps and z0, returned ProofVerifyError.
C7_Witness ==
  /\ rs # None /\ tampered = "r_U_primary.u" /\ rs[1].i = 2
  /\ last.op = "verify" /\ last.res = "ProofVerifyError"
  /\ last.num_steps = 2
  /\ last.z0_primary = rs[1].z0_primary /\ last.z0_secondary = rs[1].z0_secondary

\* C8: after new and any number of successful prove_step calls the running
\* primary pair and the running secondary pair satisfy the relaxed R1CS
\* equation of their shape and the pending secondary pair satisfies the
\* plain one: the three checks of verify succeed.
C8_PairsAreSatisfying ==
  Clean =>
    /\ is_sat_relaxed("E1", pp.circuit_shape_primary.r1cs_shape, pp.ck_primary,
                      rs[1].r_U_primary, rs[1].r_W_primary) = "Ok"
    /\ is_sat_relaxed("E2", pp.circuit_shape_secondary.r1cs_shape, pp.ck_secondary,
                      rs[1].r_U_secondary, rs[1].r_W_secondary) = "Ok"
    /\ is_sat("E2", pp.circuit_shape_secondary.r1cs_shape, pp.ck_secondary,
              rs[1].l_u_secondary, rs[1].l_w_secondary) = "Ok"

\* Three steps with the cubic circuit on the primary side were proved (both
\* running pairs were folded twice) and verify returned Ok.
C8_Witness ==
  /\ Clean /\ rs[1].i = 3 /\ pp.types = <<"Cubic", "Trivial">>
  /\ rs[1].r_U_primary.u > 1 /\ rs[1].r_U_secondary.u > 0
  /\ last.op = "verify" /\ last.res = "Ok"

\* C9: after new and n >= 1 successful prove_step calls, l_u_secondary.X[0]
\* is the hash over the secondary RO constants of (digest, i, z0_primary,
\* zi_primary, r_U_secondary) and l_u_secondary.X[1], read in the other
\* field, is the hash over the primary RO constants of (digest, i,
\* z0_secondary, zi_secondary, r_U_primary), i being the stored counter.
C9_PendingInstanceCarriesTheHashes ==
  (Clean /\ rs[1].i >= 1) =>
    /\ rs[1].l_u_secondary.X[1] =
         RO_hash(pp.ro_consts_secondary,
                 NUM_FE_WITHOUT_IO_FOR_CRHF + 2 * pp.F_arity_primary,
                 <<digest(pp), rs[1].i>> \o rs[1].z0_primary \o rs[1].zi_primary
                   \o absorb_relaxed(rs[1].r_U_secondary),
                 NUM_HASH_BITS)
    /\ scalar_as_base("E2", rs[1].l_u_secondary.X[2]) =
         RO_hash(pp.ro_consts_primary,
                 NUM_FE_WITHOUT_IO_FOR_CRHF + 2 * pp.F_arity_secondary,
                 <<scalar_as_base("E1", digest(pp)), rs[1].i>> \o rs[1].z0_secondary
                   \o rs[1].zi_secondary \o absorb_relaxed(rs[1].r_U_primary),
                 NUM_HASH_BITS)

\* The second step of a fifth-root computation was just proved.
C9_Witness ==
  /\ Clean /\ rs[1].i = 2 /\ pp.types[1] = "FifthRoot"
  /\ last.op = "prove_step" /\ last.res = "Ok" /\ last.i = 1

DigestedComponents ==
  {"F_arity_primary", "F_arity_secondary",
   "ro_consts_primary", "ro_consts_circuit_primary",
   "ro_consts_secondary", "ro_consts_circuit_secondary",
   "ck_primary", "ck_secondary",
   "circuit_shape_primary", "circuit_shape_secondary"}

\* A PublicParams with one digested component changed in one place: an
\* arity or an RO constant or the first generator of a key is the next
\* number, the first entry of the first row of a shape's A has the next value.
alter_component(self, comp) ==
  CASE comp = "F_arity_primary" -> [self EXCEPT !.F_arity_primary = @ + 1]
    [] comp = "F_arity_secondary" -> [self EXCEPT !.F_arity_secondary = @ + 1]
    [] comp = "ro_consts_primary" -> [self EXCEPT !.ro_consts_primary.mult = @ + 1]
    [] comp = "ro_consts_circuit_primary" ->
         [self EXCEPT !.ro_consts_circuit_primary.seed = @ + 1]
    [] comp = "ro_consts_secondary" -> [self EXCEPT !.ro_consts_secondary.mult = @ + 1]
    [] comp = "ro_consts_circuit_secondary" ->
         [self EXCEPT !.ro_consts_circuit_secondary.seed = @ + 1]
    [] comp = "ck_primary" -> [self EXCEPT !.ck_primary[1] = 1 + (@ % (P1 - 1))]
    [] comp = "ck_secondary" -> [self EXCEPT !.ck_secondary[1] = 1 + (@ % (P2 - 1))]
    [] comp = "circuit_shape_primary" ->
         [self EXCEPT !.circuit_shape_primary.r1cs_shape.A[1][1][2] = @ + 1]
    [] comp = "circuit_shape_secondary" ->
         [self EXCEPT !.circuit_shape_secondary.r1cs_shape.A[1][1][2] = @ + 1]

\* The digested components of a PublicParams: all but the digest cell.
Digested(self) == [self EXCEPT !.digest = None]

\* The PublicParams built by setup(Trivial, Trivial) and setup(Cubic, Trivial)
\* with the same hints stand at positions j and k.
TrivialAndCubic(j, k) ==
  /\ built[j].args[1].kind = "Trivial" /\ built[j].args[2].kind = "Trivial"
  /\ built[k].args[1].kind = "Cubic" /\ built[k].args[2].kind = "Trivial"
  /\ built[j].args[3] = built[k].args[3]

SNARK_setup(ck, S) == [pk |-> [ck |-> ck, S |-> S], vk |-> [ck |-> ck, S |-> S]]

\* RelaxedR1CSSNARKTrait::prove(ck, pk, S, U, W)
SNARK_prove(E, ck, pk, S, U, W) ==
  [key |-> pk, U |-> U, sat |-> is_sat_relaxed(E, S, ck, U, W) = "Ok"]

\* RelaxedR1CSSNARKTrait::verify(vk, U)
SNARK_verify(snark, vk, U) ==
  IF snark.key = vk /\ snark.U = U /\ snark.sat THEN "Ok" ELSE "ProofVerifyError"

\* CompressedSNARK::setup(pp): the prover key and the verifier key.
CompressedSNARK_setup(params) ==
  LET primary == SNARK_setup(params.ck_primary, params.circuit_shape_primary.r1cs_shape)
      secondary == SNARK_setup(params.ck_secondary,
                               params.circuit_shape_secondary.r1cs_shape)
  IN [pk |-> [pk_primary |-> primary.pk, pk_secondary |-> secondary.pk],
      vk |-> [F_arity_primary |-> params.F_arity_primary,
              F_arity_secondary |-> params.F_arity_secondary,
              ro_consts_primary |-> params.ro_consts_primary,
              ro_consts_secondary |-> params.ro_consts_secondary,
              pp_digest |-> digest(params),
              vk_primary |-> primary.vk,
              vk_secondary |-> secondary.vk]]

\* Fault injection: a prove that folds in place, so that the running
\* secondary instance it stores is the folded one.
CompressedSNARK_prove_stores_folded(params, pk, recursive_snark, nifs) ==
  Ret("Ok",
      Some([r_U_primary |-> recursive_snark.r_U_primary,
            r_W_snark_primary |->
              SNARK_prove("E1", params.ck_primary, pk.pk_primary,
                          params.circuit_shape_primary.r1cs_shape,
                          recursive_snark.r_U_primary, recursive_snark.r_W_primary),
            r_U_secondary |-> nifs.U,
            l_u_secondary |-> recursive_snark.l_u_secondary,
            nifs_secondary |-> [comm_T |-> nifs.comm_T],
            f_W_snark_secondary |->
              SNARK_prove("E2", params.ck_secondary, pk.pk_secondary,
                          params.circuit_shape_secondary.r1cs_shape, nifs.U, nifs.W),
            zn_primary |-> recursive_snark.zi_primary,
            zn_secondary |-> recursive_snark.zi_secondary]))

\* Fault injection: the secondary SNARK is made for the running pair as it
\* was before the fold.
CompressedSNARK_prove_unfolded(params, pk, recursive_snark, nifs) ==
  Ret("Ok",
      Some([r_U_primary |-> recursive_snark.r_U_primary,
            r_W_snark_primary |->
              SNARK_prove("E1", params.ck_primary, pk.pk_primary,
                          params.circuit_shape_primary.r1cs_shape,
                          recursive_snark.r_U_primary, recursive_snark.r_W_primary),
            r_U_secondary |-> recursive_snark.r_U_secondary,
            l_u_secondary |-> recursive_snark.l_u_secondary,
            nifs_secondary |-> [comm_T |-> nifs.comm_T],
            f_W_snark_secondary |->
              SNARK_prove("E2", params.ck_secondary, pk.pk_secondary,
                          params.circuit_shape_secondary.r1cs_shape,
                          recursive_snark.r_U_secondary, recursive_snark.r_W_secondary),
            zn_primary |-> recursive_snark.zi_primary,
            zn_secondary |-> recursive_snark.zi_secondary]))

\* CompressedSNARK::prove past the fold: the two SNARKs and the value built.
CompressedSNARK_prove_snarks(params, pk, recursive_snark, nifs) ==
  Ret("Ok",
      Some([r_U_primary |-> recursive_snark.r_U_primary,
            r_W_snark_primary |->
              SNARK_prove("E1", params.ck_primary, pk.pk_primary,
                          params.circuit_shape_primary.r1cs_shape,
                          recursive_snark.r_U_primary, recursive_snark.r_W_primary),
            r_U_secondary |-> recursive_snark.r_U_secondary,
            l_u_secondary |-> recursive_snark.l_u_secondary,
            nifs_secondary |-> [comm_T |-> nifs.comm_T],
            f_W_snark_secondary |->
              SNARK_prove("E2", params.ck_secondary, pk.pk_secondary,
                          params.circuit_shape_secondary.r1cs_shape, nifs.U, nifs.W),
            zn_primary |-> recursive_snark.zi_primary,
            zn_secondary |-> recursive_snark.zi_secondary]))

\* CompressedSNARK::prove(pp, pk, recursive_snark): fold the secondary
\* circuit's instance with its running instance, then prove both sides.
CompressedSNARK_prove(params, pk, recursive_snark) ==
  LET nifs == NIFS_prove("E2", params.ck_secondary, params.ro_consts_secondary,
                         scalar_as_base("E1", digest(params)),
                         params.circuit_shape_secondary.r1cs_shape,
                         recursive_snark.r_U_secondary, recursive_snark.r_W_secondary,
                         recursive_snark.l_u_secondary, recursive_snark.l_w_secondary)
  IN IF ~nifs.ok THEN Ret("InvalidWitnessLength", None)
     ELSE CompressedSNARK_prove_snarks(params, pk, recursive_snark, nifs)

\* The first hash CompressedSNARK::verify recomputes.
CompressedSNARK_hash_primary(self, vk, num_steps, z0_primary) ==
  RO_hash(vk.ro_consts_secondary,
          NUM_FE_WITHOUT_IO_FOR_CRHF + 2 * vk.F_arity_primary,
          <<vk.pp_digest, ScalarFrom("E1", num_steps)>> \o z0_primary
            \o self.zn_primary \o absorb_relaxed(self.r_U_secondary),
          NUM_HASH_BITS)

\* The second hash CompressedSNARK::verify recomputes.
CompressedSNARK_hash_secondary(self, vk, num_steps, z0_secondary) ==
  RO_hash(vk.ro_consts_primary,
          NUM_FE_WITHOUT_IO_FOR_CRHF + 2 * vk.F_arity_secondary,
          <<scalar_as_base("E1", vk.pp_digest), ScalarFrom("E2", num_steps)>>
            \o z0_secondary \o self.zn_secondary
            \o absorb_relaxed(self.r_U_primary),
          NUM_HASH_BITS)

\* Fault injection: only the primary SNARK is verified.
CompressedSNARK_verify_snarks_primary_only(self, vk, f_U_secondary) ==
  IF SNARK_verify(self.r_W_snark_primary, vk.vk_primary, self.r_U_primary) # "Ok"
  THEN VerifyRet("ProofVerifyError", <<>>)
  ELSE VerifyRet("Ok", <<self.zn_primary, self.zn_secondary>>)

\* CompressedSNARK::verify past the fold: the two SNARK verifications (in
\* parallel; the primary's error is the one returned first).
CompressedSNARK_verify_snarks(self, vk, f_U_secondary) ==
  LET res_primary == SNARK_verify(self.r_W_snark_primary, vk.vk_primary,
                                  self.r_U_primary)
      res_secondary == SNARK_verify(self.f_W_snark_secondary, vk.vk_secondary,
                                    f_U_secondary)
  IN IF res_primary # "Ok" THEN VerifyRet(res_primary, <<>>)
     ELSE IF res_secondary # "Ok" THEN VerifyRet(res_secondary, <<>>)
     ELSE VerifyRet("Ok", <<self.zn_primary, self.zn_secondary>>)

\* CompressedSNARK::verify past the hash checks: fold the secondary's
\* running instance with the last instance to get a folded instance.
CompressedSNARK_verify_fold(self, vk) ==
  LET f == NIFS_verify("E2", vk.ro_consts_secondary,
                       scalar_as_base("E1", vk.pp_digest),
                       self.r_U_secondary, self.l_u_secondary,
                       self.nifs_secondary.comm_T)
  IN IF ~f.ok THEN VerifyRet("InvalidCommitment", <<>>)
     ELSE CompressedSNARK_verify_snarks(self, vk, f.U)

\* Fault injection: the fold of the secondary instances is verified before
\* the hashes are compared.
CompressedSNARK_verify_fold_first(self, vk, num_steps, z0_primary, z0_secondary) ==
  IF num_steps = 0 THEN VerifyRet("ProofVerifyError", <<>>)
  ELSE IF Len(self.l_u_secondary.X) # 2 \/ Len(self.r_U_primary.X) # 2
            \/ Len(self.r_U_secondary.X) # 2
  THEN VerifyRet("ProofVerifyError", <<>>)
  ELSE IF CompressedSNARK_verify_fold(self, vk).res # "Ok"
  THEN CompressedSNARK_verify_fold(self, vk)
  ELSE IF CompressedSNARK_hash_primary(self, vk, num_steps, z0_primary)
              # self.l_u_secondary.X[1]
            \/ CompressedSNARK_hash_secondary(self, vk, num_steps, z0_secondary)
              # scalar_as_base("E2", self.l_u_secondary.X[2])
  THEN VerifyRet("ProofVerifyError", <<>>)
  ELSE CompressedSNARK_verify_fold(self, vk)

\* Fault injection: a verify that only looks at the lengths.
CompressedSNARK_verify_unchecked(self, vk, num_steps, z0_primary, z0_secondary) ==
  IF Len(self.l_u_secondary.X) # 2 \/ Len(self.r_U_primary.X) # 2
       \/ Len(self.r_U_secondary.X) # 2
  THEN VerifyRet("ProofVerifyError", <<>>)
  ELSE VerifyRet("Ok", <<self.zn_primary, self.zn_secondary>>)

\* CompressedSNARK::verify(vk, num_steps, z0_primary, z0_secondary)
CompressedSNARK_verify(self, vk, num_steps, z0_primary, z0_secondary) ==
  IF num_steps = 0 THEN VerifyRet("ProofVerifyError", <<>>)
  ELSE IF Len(self.l_u_secondary.X) # 2 \/ Len(self.r_U_primary.X) # 2
            \/ Len(self.r_U_secondary.X) # 2
  THEN VerifyRet("ProofVerifyError", <<>>)
  ELSE IF CompressedSNARK_hash_primary(self, vk, num_steps, z0_primary)
              # self.l_u_secondary.X[1]
            \/ CompressedSNARK_hash_secondary(self, vk, num_steps, z0_secondary)
              # scalar_as_base("E2", self.l_u_secondary.X[2])
  THEN VerifyRet("ProofVerifyError", <<>>)
  ELSE CompressedSNARK_verify_fold(self, vk)

\* The alterations of a CompressedSNARK that came back from serialization:
\* an entry is the next field element, a vector lost its last entry, the
\* compressed cross-term commitment is a string that is no point, a SNARK
\* is no longer a valid proof.
CompressedFields ==
  {"zn_primary", "zn_secondary", "r_U_primary.u", "r_U_secondary.u",
   "l_u_secondary.X.len", "r_U_primary.X.len", "r_U_secondary.X.len",
   "nifs_secondary.comm_T", "r_W_snark_primary", "f_W_snark_secondary"}

\* Those that change what the two hashes are taken over.
CompressedHashedFields ==
  {"zn_primary", "zn_secondary", "r_U_primary.u", "r_U_secondary.u"}

tamper_compressed(self, field) ==
  CASE field = "zn_primary" -> [self EXCEPT !.zn_primary[1] = Next1("E1", @)]
    [] field = "zn_secondary" -> [self EXCEPT !.zn_secondary[1] = Next1("E2", @)]
    [] field = "r_U_primary.u" -> [self EXCEPT !.r_U_primary.u = Next1("E1", @)]
    [] field = "r_U_secondary.u" -> [self EXCEPT !.r_U_secondary.u = Next1("E2", @)]
    [] field = "l_u_secondary.X.len" -> [self EXCEPT !.l_u_secondary.X = DropLast(@)]
    [] field = "r_U_primary.X.len" -> [self EXCEPT !.r_U_primary.X = DropLast(@)]
    [] field = "r_U_secondary.X.len" -> [self EXCEPT !.r_U_secondary.X = DropLast(@)]
    [] field = "nifs_secondary.comm_T" -> [self EXCEPT !.nifs_secondary.comm_T = 0]
    [] field = "r_W_snark_primary" -> [self EXCEPT !.r_W_snark_primary.sat = FALSE]
    [] field = "f_W_snark_secondary" -> [self EXCEPT !.f_W_snark_secondary.sat = FALSE]

(***************************************************************************)
(* A third state machine: a prover with parameters pp proves, compresses   *)
(* and hands the proof to a verifier who holds parameters vpp (the same    *)
(* or others).  A verification ends the session.                           *)
(***************************************************************************)
\* The operations of a verifier.
VerifyOps == {"verify", "compressed_verify"}

\* The circuit values whose synthesis goes through.
Synthesizable(kind, E, z) == {c \in Circuits(kind, E, z) : ~c.fail}

\* What the verifier may have given to setup when the prover's circuits are
\* of types t: any circuits with the prover's hints, or the prover's circuits
\* with the default hints.
VerifierSetups(t) ==
  {<<a[1], a[2], "ppsnark">> : a \in CircuitTypes} \cup {<<t[1], t[2], "default">>}

\* The initial inputs a verifier supplies with a proof: the prover's, or
\* these with the primary or the secondary one changed.
Z0Supplied(self) ==
  {<<self.z0_primary, self.z0_secondary>>,
   <<<<Next1("E1", self.z0_primary[1])>>, self.z0_secondary>>,
   <<self.z0_primary, <<Next1("E2", self.z0_secondary[1])>> >>}

InitCompressed ==
  /\ built = <<>>
  /\ digests = <<>>
  /\ compressed = None
  /\ threads = <<>>
  /\ frame = <<>>
  /\ \E t \in CircuitTypes :
       /\ pp = setup(ShapeCircuit(t[1]), ShapeCircuit(t[2]), "ppsnark", "ppsnark")
       /\ \E a \in VerifierSetups(t) :
            vpp = digest_init(setup(ShapeCircuit(a[1]), ShapeCircuit(a[2]), a[3], a[3]))
  /\ rs = None
  /\ last = Last("setup", "Ok", <<>>, 0, 0, <<>>, <<>>,
                 ShapeCircuit("Trivial"), ShapeCircuit("Trivial"), "")
  /\ zn_direct = <<>>
  /\ tampered = ""
  /\ failed = FALSE

\* CompressedSNARK::setup(&pp) and CompressedSNARK::prove(&pp, &pk, &recursive_snark)
\* on a proof as new and prove_step left it.
Compress ==
  /\ Running
  /\ rs # None
  /\ tampered = ""
  /\ ~failed
  /\ compressed = None
  /\ last.op \notin VerifyOps
  /\ LET r == CompressedSNARK_prove(pp, CompressedSNARK_setup(pp).pk, rs[1])
     IN /\ compressed' = r.self
        /\ last' = Last("compress", r.res, <<>>, rs[1].i, 0, <<>>, <<>>,
                        ShapeCircuit("Trivial"), ShapeCircuit("Trivial"), "")
  /\ pp' = digest_init(pp)
  /\ UNCHANGED <<rs, zn_direct, tampered, failed, built, digests, vpp, threads, frame>>

\* The CompressedSNARK goes through serialization and one field comes back altered.
TamperCompressed(field) ==
  /\ compressed # None
  /\ tampered = ""
  /\ last.op = "compress"
  /\ compressed' = Some(tamper_compressed(compressed[1], field))
  /\ tampered' = field
  /\ last' = Last("tamper", "Ok", <<>>, 0, 0, <<>>, <<>>,
                  ShapeCircuit("Trivial"), ShapeCircuit("Trivial"), field)
  /\ UNCHANGED <<pp, rs, zn_direct, failed, built, digests, vpp, threads, frame>>

\* compressed_snark.verify(&vk, num_steps, &z0_primary, &z0_secondary) with
\* the verifier key the verifier derived from vpp by CompressedSNARK::setup.
CompressedVerify(num_steps, z0_primary, z0_secondary) ==
  /\ compressed # None
  /\ last.op \notin VerifyOps
  /\ LET r == CompressedSNARK_verify(compressed[1], CompressedSNARK_setup(vpp).vk,
                                     num_steps, z0_primary, z0_secondary)
     IN last' = Last("compressed_verify", r.res, r.zn, 0, num_steps,
                     z0_primary, z0_secondary,
                     ShapeCircuit("Trivial"), ShapeCircuit("Trivial"), "")
  /\ vpp' = digest_init(vpp)
  /\ UNCHANGED <<pp, rs, zn_direct, tampered, failed, built, digests, compressed, threads, frame>>

\* recursive_snark.verify(&vpp, num_steps, &z0_primary, &z0_secondary) by
\* the verifier, on the proof as the prover left it.
VerifyUnder(num_steps, z0_primary, z0_secondary) ==
  /\ Running
  /\ rs # None
  /\ compressed = None
  /\ last.op \notin VerifyOps
  /\ LET r == verify(rs[1], vpp, num_steps, z0_primary, z0_secondary)
     IN last' = Last("verify", r.res, r.zn, 0, num_steps, z0_primary, z0_secondary,
                     ShapeCircuit("Trivial"), ShapeCircuit("Trivial"), "")
  /\ vpp' = IF verify_reads_digest(rs[1], num_steps, z0_primary, z0_secondary)
            THEN digest_init(vpp) ELSE vpp
  /\ UNCHANGED <<pp, rs, zn_direct, tampered, failed, built, digests, compressed, threads, frame>>

NextCompressed ==
  \/ \E z0p \in Z0Claimed, z0s \in {<<0>>} :
       \E c1 \in Synthesizable(pp.types[1], "E1", z0p),
          c2 \in Synthesizable(pp.types[2], "E2", z0s) : New(c1, c2, z0p, z0s)
  \/ /\ rs # None
     /\ compressed = None
     /\ last.op \notin VerifyOps
     /\ \E c1 \in Synthesizable(pp.types[1], "E1", rs[1].zi_primary),
           c2 \in Synthesizable(pp.types[2], "E2", rs[1].zi_secondary) :
          ProveStep(c1, c2)
  \/ Compress
  \/ \E f \in CompressedFields : TamperCompressed(f)
  \/ /\ rs # None
     /\ \E n \in 0..MaxSteps, z0 \in Z0Supplied(rs[1]) : CompressedVerify(n, z0[1], z0[2])
  \/ /\ rs # None
     /\ \E n \in 0..MaxSteps, z0 \in Z0Supplied(rs[1]) : VerifyUnder(n, z0[1], z0[2])

SpecCompressed == InitCompressed /\ [][NextCompressed]_vars

\* C12: a proof made under the prover's parameters is rejected by a verifier
\* whose parameters have another digest, by CompressedSNARK::verify under
\* the verifier key derived from them and by RecursiveSNARK::verify alike.
C12_OtherParametersReject ==
  (last.op \in VerifyOps /\ digest(vpp) # digest(pp))
    => last.res \notin {"Ok", "Panic"}

\* An untouched compressed proof of i >= 1 steps was verified, with the
\* right number of steps and the right inputs, under parameters of another digest.
C12_Witness ==
  /\ last.op = "compressed_verify"
  /\ digest(vpp) # digest(pp)
  /\ tampered = ""
  /\ rs[1].i >= 1 /\ last.num_steps = rs[1].i
  /\ last.z0_primary = rs[1].z0_primary /\ last.z0_secondary = rs[1].z0_secondary

(***************************************************************************)
(* A fourth state machine: threads that share one PublicParams and call    *)
(* digest() concurrently.  The cell is a once_cell::sync::OnceCell:        *)
(* get_or_try_init returns the value of a cell that is set, and otherwise  *)
(* runs the initializer, in one caller at a time, and stores its result.   *)
(***************************************************************************)
\* The threads that are running the initializer.
initializing(ths) == {t \in DOMAIN ths : ths[t].pc = "init"}

\* OnceCell::get_or_try_init: whether a caller that found the cell empty may
\* run the initializer now (the others block until the cell is set).
OnceCell_may_init(ths, t) == initializing(ths) = {}

InitConcurrent ==
  /\ built = <<>>
  /\ digests = <<>>
  /\ compressed = None
  /\ frame = <<>>
  /\ threads = [t \in 1..MaxThreads |-> [pc |-> "idle", got |-> <<>>, inits |-> 0]]
  /\ \E t \in CircuitTypes, h \in Hints :
       /\ pp = setup(ShapeCircuit(t[1]), ShapeCircuit(t[2]), h, h)
       /\ vpp = pp
  /\ rs = None
  /\ last = Last("setup", "Ok", <<>>, 0, 0, <<>>, <<>>,
                 ShapeCircuit("Trivial"), ShapeCircuit("Trivial"), "")
  /\ zn_direct = <<>>
  /\ tampered = ""
  /\ failed = FALSE

\* Thread t calls pp.digest().
DigestCall(t) ==
  /\ threads[t].pc = "idle"
  /\ Len(threads[t].got) < MaxDigestCalls
  /\ threads' = [threads EXCEPT ![t].pc = "get"]
  /\ UNCHANGED <<pp, rs, last, zn_direct, tampered, failed, built, digests, vpp, compressed, frame>>

\* get_or_try_init finds the cell set: the call returns the cell's value.
DigestGet(t) ==
  /\ threads[t].pc = "get"
  /\ pp.digest # None
  /\ threads' = [threads EXCEPT ![t].pc = "idle", ![t].got = Append(@, digest(pp))]
  /\ UNCHANGED <<pp, rs, last, zn_direct, tampered, failed, built, digests, vpp, compressed, frame>>

\* get_or_try_init finds the cell empty and t is let in: t starts the
\* initializer, DigestComputer::new(self).digest().
DigestStartInit(t) ==
  /\ threads[t].pc = "get"
  /\ pp.digest = None
  /\ OnceCell_may_init(threads, t)
  /\ threads' = [threads EXCEPT ![t].pc = "init", ![t].inits = @ + 1]
  /\ UNCHANGED <<pp, rs, last, zn_direct, tampered, failed, built, digests, vpp, compressed, frame>>

\* The initializer of t is done: its result is stored and the call returns
\* what the cell holds.
DigestEndInit(t) ==
  /\ threads[t].pc = "init"
  /\ pp' = digest_init(pp)
  /\ threads' = [threads EXCEPT ![t].pc = "idle",
                                ![t].got = Append(@, digest(digest_init(pp)))]
  /\ UNCHANGED <<rs, last, zn_direct, tampered, failed, built, digests, vpp, compressed, frame>>

NextConcurrent ==
  \E t \in DOMAIN threads :
    \/ DigestCall(t)
    \/ DigestGet(t)
    \/ DigestStartInit(t)
    \/ DigestEndInit(t)

SpecConcurrent == InitConcurrent /\ [][NextConcurrent]_vars

\* The values the digest() calls have returned so far.
Returned == UNION {{threads[t].got[k] : k \in DOMAIN threads[t].got} : t \in DOMAIN threads}

\* The number of times the initializer was run.
RECURSIVE InitializerRuns(_)
InitializerRuns(t) == IF t = 0 THEN 0 ELSE threads[t].inits + InitializerRuns(t - 1)

\* C13: under every interleaving of concurrent digest() calls on one
\* PublicParams the cell, once set, keeps its value; the digest is computed
\* once; and every call that has returned returned the value in the cell.
C13_DigestCellIsWrittenOnce ==
  [][/\ pp.digest # None => pp'.digest = pp.digest
     /\ InitializerRuns(MaxThreads)' <= 1
     /\ \A v \in Returned' : pp'.digest = Some(v)]_vars

\* Two threads have both got the digest, one of them by computing it while
\* the other was waiting for the cell.
C13_Witness ==
  /\ \A t \in DOMAIN threads : Len(threads[t].got) >= 1
  /\ \E t \in DOMAIN threads : threads[t].inits = 1
  /\ \E t \in DOMAIN threads : threads[t].inits = 0

\* The verifier holds the prover's parameters.
SameParameters == Digested(vpp) = Digested(pp)

\* The last operation was a verification with the number of steps proven
\* and the initial inputs the proof was made for.
VerifiedAsProven ==
  /\ last.op \in VerifyOps
  /\ rs # None
  /\ last.num_steps = rs[1].i
  /\ last.z0_primary = rs[1].z0_primary
  /\ last.z0_secondary = rs[1].z0_secondary

\* C14: after k >= 1 successful prove_step calls CompressedSNARK::prove
\* succeeds, and CompressedSNARK::verify(vk, k, z0) under the verifier key of
\* the prover's parameters returns Ok with the outputs that
\* RecursiveSNARK::verify(pp, k, z0) returns.
C14_CompressionIsComplete ==
  /\ (last.op = "compress" /\ last.i >= 1) => (last.res = "Ok" /\ compressed # None)
  /\ (/\ last.op = "compressed_verify"
      /\ VerifiedAsProven
      /\ rs[1].i >= 1
      /\ tampered = ""
      /\ SameParameters)
       => LET r == verify(rs[1], pp, rs[1].i, rs[1].z0_primary, rs[1].z0_secondary)
          IN r.res = "Ok" /\ last.res = "Ok" /\ last.zn = r.zn

\* The compressed proof of three steps of the Trivial and Cubic circuits
\* from (1, 0) was verified under the prover's parameters.
C14_Witness ==
  /\ last.op = "compressed_verify"
  /\ VerifiedAsProven
  /\ rs[1].i = 3
  /\ tampered = ""
  /\ SameParameters
  /\ pp.types = <<"Trivial", "Cubic">>
  /\ rs[1].z0_primary = <<1>> /\ rs[1].z0_secondary = <<0>>
  /\ last.zn = <<<<1>>, <<2460515 % P2>>>>

\* The public IO vectors of a CompressedSNARK all have two entries.
TwoOutputs(self) ==
  /\ Len(self.l_u_secondary.X) = 2
  /\ Len(self.r_U_primary.X) = 2
  /\ Len(self.r_U_secondary.X) = 2

\* The hashes recomputed from the verifier key, num_steps, the supplied z0
\* and the stored zn and U values are not the two outputs of l_u_secondary.
HashesDiffer(self, vk, num_steps, z0_primary, z0_secondary) ==
  \/ CompressedSNARK_hash_primary(self, vk, num_steps, z0_primary)
       # self.l_u_secondary.X[1]
  \/ CompressedSNARK_hash_secondary(self, vk, num_steps, z0_secondary)
       # scalar_as_base("E2", self.l_u_secondary.X[2])

\* The number of steps a proof stands for: new has made the first one.
StepsProven(self) == Max2(self.i, 1)

\* C15: CompressedSNARK::verify returns ProofVerifyError when num_steps is 0,
\* when one of the three public IO vectors has not two entries, or when the
\* recomputed hashes are not the outputs of l_u_secondary, which is so when
\* num_steps or z0 are not those proven, when the verifier key has another
\* digest, or when zn or a running instance was altered.  The fold and the
\* SNARKs are looked at only after: an undecodable cross-term commitment or
\* an invalid SNARK does not change the answer.
C15_CompressedVerifyChecksFirst ==
  last.op = "compressed_verify" =>
    /\ (\/ last.num_steps = 0
        \/ ~TwoOutputs(compressed[1])
        \/ HashesDiffer(compressed[1], CompressedSNARK_setup(vpp).vk,
                        last.num_steps, last.z0_primary, last.z0_secondary))
         => last.res = "ProofVerifyError"
    /\ (\/ last.num_steps # StepsProven(rs[1])
        \/ last.z0_primary # rs[1].z0_primary
        \/ last.z0_secondary # rs[1].z0_secondary
        \/ digest(vpp) # digest(pp)
        \/ tampered \in CompressedHashedFields \cup LengthFields)
         => last.res = "ProofVerifyError"

\* A proof whose cross-term commitment was made undecodable was verified
\* with a number of steps that is not the one proven.
C15_Witness ==
  /\ last.op = "compressed_verify"
  /\ tampered = "nifs_secondary.comm_T"
  /\ last.num_steps >= 1
  /\ last.num_steps # StepsProven(rs[1])
  /\ last.res = "ProofVerifyError"

(***************************************************************************)
(* The errors of RecursiveSNARK::verify.                                   *)
(***************************************************************************)
\* One of the three pairs verify checks does not satisfy its shape.
Unsatisfying(self, params) ==
  \/ is_sat_relaxed("E1", params.circuit_shape_primary.r1cs_shape,
                    params.ck_primary, self.r_U_primary, self.r_W_primary) # "Ok"
  \/ is_sat_relaxed("E2", params.circuit_shape_secondary.r1cs_shape,
                    params.ck_secondary, self.r_U_secondary, self.r_W_secondary) # "Ok"
  \/ is_sat("E2", params.circuit_shape_secondary.r1cs_shape,
            params.ck_secondary, self.l_u_secondary, self.l_w_secondary) # "Ok"

\* The two hashes verify recomputes are the outputs of l_u_secondary.
HashesMatch(self, params, num_steps, z0_primary, z0_secondary) ==
  /\ verify_hash_primary(self, params, num_steps, z0_primary)
       = self.l_u_secondary.X[1]
  /\ verify_hash_secondary(self, params, num_steps, z0_secondary)
       = scalar_as_base("E2", self.l_u_secondary.X[2])

\* C20: when verify gets past its parameter checks, a proof whose hashes do
\* not match is answered with ProofVerifyError, whether its pairs are
\* satisfying or not, and a proof whose hashes match but of which a pair is
\* not satisfying is answered with UnSat; altering a witness (r_W_primary,
\* r_W_secondary, l_w_secondary) leaves the hashes matching and makes a pair
\* unsatisfying.
C20_UnSatAfterTheHashes ==
  (last.op = "verify" /\ rs # None
     /\ verify_reads_digest(rs[1], last.num_steps, last.z0_primary, last.z0_secondary))
  => LET matching == HashesMatch(rs[1], pp, last.num_steps, last.z0_primary,
                                 last.z0_secondary)
     IN /\ ~matching => last.res = "ProofVerifyError"
        /\ (matching /\ Unsatisfying(rs[1], pp)) => last.res = "UnSat"
        /\ tampered \in WitnessFields => (matching /\ Unsatisfying(rs[1], pp))

\* An entry of the running secondary witness of a three-step proof was
\* altered and verify, called with the right num_steps and z0, returned UnSat.
C20_Witness ==
  /\ rs # None /\ tampered = "r_W_secondary.W" /\ rs[1].i = 3
  /\ last.op = "verify" /\ last.res = "UnSat" /\ last.num_steps = 3
  /\ last.z0_primary = rs[1].z0_primary /\ last.z0_secondary = rs[1].z0_secondary

(***************************************************************************)
(* The hashes of the base case.                                            *)
(***************************************************************************)
\* The recursion hash of one side (sigma 1: primary) over the step index n,
\* the stored initial input, the state z and the running instance U.
recursion_hash(self, params, sigma, n, z, U) ==
  IF sigma = 1
  THEN RO_hash(params.ro_consts_secondary,
               NUM_FE_WITHOUT_IO_FOR_CRHF + 2 * params.F_arity_primary,
               <<digest(params), n>> \o self.z0_primary \o z \o absorb_relaxed(U),
               NUM_HASH_BITS)
  ELSE RO_hash(params.ro_consts_primary,
               NUM_FE_WITHOUT_IO_FOR_CRHF + 2 * params.F_arity_secondary,
               <<scalar_as_base("E1", digest(params)), n>> \o self.z0_secondary
                 \o z \o absorb_relaxed(U),
               NUM_HASH_BITS)

\* new has just returned a RecursiveSNARK.
JustConstructed == last.op = "new" /\ last.res = "Ok" /\ rs # None

\* C17 as stated: the hashes carried by the state that new produces are
\* over the step index 0, over z0 in both state positions and over the zero
\* relaxed instance.
C17_BaseHashIsOverIndexZero ==
  JustConstructed =>
    /\ rs[1].l_u_secondary.X[1] =
         recursion_hash(rs[1], pp, 1, 0, rs[1].z0_primary,
           RelaxedR1CSInstance_default(pp.circuit_shape_secondary.r1cs_shape))
    /\ scalar_as_base("E2", rs[1].l_u_secondary.X[2]) =
         recursion_hash(rs[1], pp, 2, 0, rs[1].z0_secondary,
           RelaxedR1CSInstance_default(pp.circuit_shape_primary.r1cs_shape))

\* C17: the hashes carried by the state that new produces are over the step
\* index 1 and over z0 and z1, the outputs of one step of each step circuit
\* on z0; the primary one is over the zero relaxed instance of the secondary
\* shape, the secondary one over the lifted primary base instance.  They are
\* the hashes verify recomputes for num_steps = 1.
C17_BaseHashIsOverIndexOne ==
  JustConstructed =>
    /\ rs[1].i = 0
    /\ <<rs[1].zi_primary, rs[1].zi_secondary>> = zn_direct
    /\ rs[1].r_U_secondary
         = RelaxedR1CSInstance_default(pp.circuit_shape_secondary.r1cs_shape)
    /\ rs[1].l_u_secondary.X[1] =
         recursion_hash(rs[1], pp, 1, 1, zn_direct[1], rs[1].r_U_secondary)
    /\ scalar_as_base("E2", rs[1].l_u_secondary.X[2]) =
         recursion_hash(rs[1], pp, 2, 1, zn_direct[2], rs[1].r_U_primary)
    /\ HashesMatch(rs[1], pp, 1, rs[1].z0_primary, rs[1].z0_secondary)

\* new was called with the trivial and the cubic circuit on (1, 0): the
\* state holds the outputs (1, 5) of the first step.
C17_Witness ==
  /\ JustConstructed
  /\ pp.types = <<"Trivial", "Cubic">>
  /\ rs[1].z0_primary = <<1>> /\ rs[1].z0_secondary = <<0>>
  /\ rs[1].zi_primary = <<1>> /\ rs[1].zi_secondary = <<5>>

(***************************************************************************)
(* A fourth state machine: prove_step statement by statement.  rs is the   *)
(* RecursiveSNARK the call works on through &mut self; frame holds the     *)
(* position in the function body and its locals, and beside them a record  *)
(* of the session: the RecursiveSNARK as the call found it, the statements *)
(* it has run, and the instances made and folded since new.                *)
(***************************************************************************)
\* Fault injection: the primary circuit is synthesized before the fold of
\* the secondary pair.
prove_step_order_synthesize_first ==
  <<"synthesize_primary", "fold_secondary", "fold_primary",
    "synthesize_secondary", "update">>

\* The statements of prove_step past its early return, in program order.
prove_step_order ==
  <<"fold_secondary", "synthesize_primary", "fold_primary",
    "synthesize_secondary", "update">>

\* The statement that follows statement p.
prove_step_after(p) ==
  LET k == CHOOSE j \in 1..Len(prove_step_order) : prove_step_order[j] = p
  IN IF k < Len(prove_step_order) THEN prove_step_order[k + 1] ELSE "idle"

\* Fault injection: the primary circuit is given the running secondary
\* instance as it is when the inputs are built.
prove_step_inputs_primary_folded(self, params, r_U_secondary_i, l_u_secondary_i, comm_T) ==
  NovaAugmentedCircuitInputs(scalar_as_base("E1", digest(params)),
                             ScalarFrom("E1", self.i),
                             self.z0_primary, Some(self.zi_primary),
                             Some(self.r_U_secondary), Some(l_u_secondary_i),
                             Some(comm_T))

\* inputs_primary, built after the fold of the secondary pair
prove_step_inputs_primary(self, params, r_U_secondary_i, l_u_secondary_i, comm_T) ==
  NovaAugmentedCircuitInputs(scalar_as_base("E1", digest(params)),
                             ScalarFrom("E1", self.i),
                             self.z0_primary, Some(self.zi_primary),
                             Some(r_U_secondary_i), Some(l_u_secondary_i),
                             Some(comm_T))

\* inputs_secondary, built after the fold of the primary pair
prove_step_inputs_secondary(self, params, r_U_primary_i, l_u_primary, comm_T) ==
  NovaAugmentedCircuitInputs(digest(params), ScalarFrom("E2", self.i),
                             self.z0_secondary, Some(self.zi_secondary),
                             Some(r_U_primary_i), Some(l_u_primary),
                             Some(comm_T))

\* No call in progress: the locals are gone, the record of the session stays.
Idle(f) ==
  [f EXCEPT !.pc = "idle", !.done = <<>>, !.entry = None,
            !.r_U_primary_i = None, !.r_U_secondary_i = None,
            !.l_u_secondary_i = None,
            !.nifs_secondary = 0, !.inputs_primary = None, !.zi_primary = None,
            !.l_u_primary = None, !.l_w_primary = None,
            !.nifs_primary = 0, !.inputs_secondary = None, !.zi_secondary = None,
            !.l_u_secondary = None, !.l_w_secondary = None]

InitSteps ==
  /\ built = <<>>
  /\ digests = <<>>
  /\ compressed = <<>>
  /\ threads = <<>>
  /\ \E t \in CircuitTypes, h \in Hints :
       /\ pp = setup(ShapeCircuit(t[1]), ShapeCircuit(t[2]), h, h)
       /\ vpp = pp
  /\ rs = None
  /\ last = Last("setup", "Ok", <<>>, 0, 0, <<>>, <<>>,
                 ShapeCircuit("Trivial"), ShapeCircuit("Trivial"), "")
  /\ zn_direct = <<>>
  /\ tampered = ""
  /\ failed = FALSE
  /\ frame = [pc |-> "idle", done |-> <<>>, entry |-> None,
              c_primary |-> ShapeCircuit("Trivial"),
              c_secondary |-> ShapeCircuit("Trivial"),
              r_U_primary_i |-> None, r_U_secondary_i |-> None,
              l_u_secondary_i |-> None,
              nifs_secondary |-> 0, inputs_primary |-> None, zi_primary |-> None,
              l_u_primary |-> None, l_w_primary |-> None,
              nifs_primary |-> 0, inputs_secondary |-> None, zi_secondary |-> None,
              l_u_secondary |-> None, l_w_secondary |-> None,
              base |-> None, folded_primary |-> <<>>, folded_secondary |-> <<>>,
              made_secondary |-> <<>>]

\* RecursiveSNARK::new; the base instances it made are noted.
Construct(c_primary, c_secondary, z0_primary, z0_secondary) ==
  /\ last.op = "setup"
  /\ LET r == new(pp, c_primary, c_secondary, z0_primary, z0_secondary)
     IN /\ rs' = r.self
        /\ pp' = IF r.res = "InvalidInitialInputLength" THEN pp ELSE digest_init(pp)
        /\ last' = Last("new", r.res, <<>>, 0, 0, z0_primary, z0_secondary,
                        c_primary, c_secondary, "")
        /\ frame' = IF r.res = "Ok"
                    THEN [frame EXCEPT
                            !.base = Some([comm_W |-> r.self[1].r_U_primary.comm_W,
                                           X |-> r.self[1].r_U_primary.X]),
                            !.made_secondary = <<r.self[1].l_u_secondary>>]
                    ELSE frame
  /\ UNCHANGED <<zn_direct, tampered, failed, built, digests, vpp, compressed, threads>>

\* A statement of the call in progress ends it: the call returns res.
Return(res) ==
  /\ last' = Last("prove_step", res, <<>>, frame.entry[1].i, 0, <<>>, <<>>,
                  frame.c_primary, frame.c_secondary, "")
  /\ failed' = (res \notin {"Ok", "Panic"})
  /\ UNCHANGED <<pp, zn_direct, tampered, built, digests, vpp, compressed, threads>>

\* The statement at pc went through.
Proceed ==
  UNCHANGED <<pp, last, failed, zn_direct, tampered, built, digests, vpp, compressed, threads>>

\* prove_step is entered: the early return at i = 0, or the clones of the
\* running instances and of the pending secondary instance.
Call(c_primary, c_secondary) ==
  /\ Running /\ rs # None /\ ~failed
  /\ frame.pc = "idle"
  /\ rs[1].i < MaxSteps
  /\ IF rs[1].i = 0
     THEN /\ rs' = Some([rs[1] EXCEPT !.i = 1])
          /\ last' = Last("prove_step", "Ok", <<>>, 0, 0, <<>>, <<>>,
                          c_primary, c_secondary, "")
          /\ UNCHANGED <<frame, failed, pp>>
     ELSE /\ frame' = [frame EXCEPT !.pc = prove_step_order[1],
                                    !.entry = rs,
                                    !.c_primary = c_primary,
                                    !.c_secondary = c_secondary,
                                    !.r_U_primary_i = Some(rs[1].r_U_primary),
                                    !.r_U_secondary_i = Some(rs[1].r_U_secondary),
                                    !.l_u_secondary_i = Some(rs[1].l_u_secondary)]
          /\ UNCHANGED <<rs, last, failed, pp>>
  /\ UNCHANGED <<zn_direct, tampered, built, digests, vpp, compressed, threads>>

\* fold the secondary circuit's instance (in place), then build the inputs
\* of the primary augmented circuit
FoldSecondary ==
  /\ frame.pc = "fold_secondary"
  /\ LET nifs == NIFS_prove_mut("E2", pp.ck_secondary, pp.ro_consts_secondary,
                                scalar_as_base("E1", digest(pp)),
                                pp.circuit_shape_secondary.r1cs_shape,
                                rs[1].r_U_secondary, rs[1].r_W_secondary,
                                rs[1].l_u_secondary, rs[1].l_w_secondary,
                                rs[1].buffer_secondary)
         self1 == [rs[1] EXCEPT !.r_U_secondary = nifs.U,
                                !.r_W_secondary = nifs.W,
                                !.buffer_secondary = nifs.buffer]
         comm_T == decompress("E2", nifs.comm_T)
     IN IF ~nifs.ok
        THEN /\ Return("Panic")
             /\ frame' = Idle(frame)
             /\ UNCHANGED rs
        ELSE /\ rs' = Some(self1)
             /\ IF ~comm_T.ok
                THEN /\ Return("InvalidCommitment")
                     /\ frame' = Idle(frame)
                ELSE /\ frame' = [frame EXCEPT
                                    !.pc = prove_step_after("fold_secondary"),
                                    !.done = Append(@, "fold_secondary"),
                                    !.nifs_secondary = nifs.comm_T,
                                    !.inputs_primary =
                                       Some(prove_step_inputs_primary(
                                              self1, pp, frame.r_U_secondary_i[1],
                                              frame.l_u_secondary_i[1], comm_T.val)),
                                    !.folded_secondary =
                                       Append(@, [u |-> rs[1].l_u_secondary,
                                                  comm_T |-> nifs.comm_T])]
                     /\ Proceed

\* synthesize the primary augmented circuit and take its instance and witness
SynthesizePrimary ==
  /\ frame.pc = "synthesize_primary"
  /\ frame.inputs_primary # None
  /\ LET cs == NovaAugmentedCircuit_synthesize(
                 "E2", pp.augmented_circuit_params_primary, frame.inputs_primary[1],
                 frame.c_primary, pp.ro_consts_circuit_primary)
         uw == r1cs_instance_and_witness_with(
                 "E1", pp.circuit_shape_primary.r1cs_shape, pp.ck_primary, cs)
     IN IF ~cs.ok \/ ~uw.ok
        THEN /\ Return(IF ~cs.ok THEN "SynthesisError" ELSE "Panic")
             /\ frame' = Idle(frame)
             /\ UNCHANGED rs
        ELSE /\ frame' = [frame EXCEPT
                            !.pc = prove_step_after("synthesize_primary"),
                            !.done = Append(@, "synthesize_primary"),
                            !.zi_primary = Some(cs.zi),
                            !.l_u_primary = Some(uw.u),
                            !.l_w_primary = Some(uw.w)]
             /\ UNCHANGED rs
             /\ Proceed

\* fold the primary circuit's instance (in place), then build the inputs of
\* the secondary augmented circuit
FoldPrimary ==
  /\ frame.pc = "fold_primary"
  /\ frame.l_u_primary # None
  /\ LET nifs == NIFS_prove_mut("E1", pp.ck_primary, pp.ro_consts_primary,
                                digest(pp), pp.circuit_shape_primary.r1cs_shape,
                                rs[1].r_U_primary, rs[1].r_W_primary,
                                frame.l_u_primary[1], frame.l_w_primary[1],
                                rs[1].buffer_primary)
         self2 == [rs[1] EXCEPT !.r_U_primary = nifs.U,
                                !.r_W_primary = nifs.W,
                                !.buffer_primary = nifs.buffer]
         comm_T == decompress("E1", nifs.comm_T)
     IN IF ~nifs.ok
        THEN /\ Return("Panic")
             /\ frame' = Idle(frame)
             /\ UNCHANGED rs
        ELSE /\ rs' = Some(self2)
             /\ IF ~comm_T.ok
                THEN /\ Return("InvalidCommitment")
                     /\ frame' = Idle(frame)
                ELSE /\ frame' = [frame EXCEPT
                                    !.pc = prove_step_after("fold_primary"),
                                    !.done = Append(@, "fold_primary"),
                                    !.nifs_primary = nifs.comm_T,
                                    !.inputs_secondary =
                                       Some(prove_step_inputs_secondary(
                                              self2, pp, frame.r_U_primary_i[1],
                                              frame.l_u_primary[1], comm_T.val)),
                                    !.folded_primary =
                                       Append(@, [u |-> frame.l_u_primary[1],
                                                  comm_T |-> nifs.comm_T])]
                     /\ Proceed

\* synthesize the secondary augmented circuit and take its instance and witness
SynthesizeSecondary ==
  /\ frame.pc = "synthesize_secondary"
  /\ frame.inputs_secondary # None
  /\ LET cs == NovaAugmentedCircuit_synthesize(
                 "E1", pp.augmented_circuit_params_secondary,
                 frame.inputs_secondary[1],
                 frame.c_secondary, pp.ro_consts_circuit_secondary)
         uw == r1cs_instance_and_witness_with(
                 "E2", pp.circuit_shape_secondary.r1cs_shape, pp.ck_secondary, cs)
     IN IF ~cs.ok \/ ~uw.ok
        THEN /\ Return(IF ~cs.ok THEN "SynthesisError" ELSE "UnSat")
             /\ frame' = Idle(frame)
             /\ UNCHANGED rs
        ELSE /\ frame' = [frame EXCEPT
                            !.pc = prove_step_after("synthesize_secondary"),
                            !.done = Append(@, "synthesize_secondary"),
                            !.zi_secondary = Some(cs.zi),
                            !.l_u_secondary = Some(uw.u),
                            !.l_w_secondary = Some(uw.w)]
             /\ UNCHANGED rs
             /\ Proceed

\* update the running instances and witnesses, and return Ok
Update ==
  /\ frame.pc = "update"
  /\ frame.l_u_secondary # None
  /\ rs' = Some([rs[1] EXCEPT !.zi_primary = frame.zi_primary[1],
                              !.zi_secondary = frame.zi_secondary[1],
                              !.l_u_secondary = frame.l_u_secondary[1],
                              !.l_w_secondary = frame.l_w_secondary[1],
                              !.i = @ + 1])
  /\ frame' = Idle([frame EXCEPT
                      !.made_secondary = Append(@, frame.l_u_secondary[1])])
  /\ Return("Ok")

NextSteps ==
  \/ \E z0p \in Z0Claimed, z0s \in Z0Claimed :
       \E c1 \in Circuits(pp.types[1], "E1", z0p),
          c2 \in Circuits(pp.types[2], "E2", z0s) : Construct(c1, c2, z0p, z0s)
  \/ /\ rs # None
     /\ \E c1 \in Circuits(pp.types[1], "E1", rs[1].zi_primary),
           c2 \in Circuits(pp.types[2], "E2", rs[1].zi_secondary) : Call(c1, c2)
  \/ FoldSecondary
  \/ SynthesizePrimary
  \/ FoldPrimary
  \/ SynthesizeSecondary
  \/ Update

SpecSteps == InitSteps /\ [][NextSteps]_vars

(***************************************************************************)
(* Properties of prove_step, statement by statement.                       *)
(***************************************************************************)
\* The fold, as NIFS::verify computes it, of the first k noted instances
\* into U, each with the cross-term commitment its fold produced.
RECURSIVE refold(_, _, _, _, _, _)
refold(E, ro_consts, pp_digest, U, folded, k) ==
  IF k = 0 THEN U
  ELSE NIFS_verify(E, ro_consts, pp_digest,
                   refold(E, ro_consts, pp_digest, U, folded, k - 1),
                   folded[k].u, folded[k].comm_T).U

\* Between two calls, after calls that all went through.
BetweenCalls == rs # None /\ Running /\ ~failed /\ frame.pc = "idle"

\* C16: between calls, after i >= 1 prove_step calls, the running primary
\* instance is the fold of i plain primary instances (the base instance
\* lifted, and the i - 1 instances folded since, one per call after the
\* first), the running secondary instance is the fold of i - 1 plain
\* secondary instances into the zero relaxed instance, these being all the
\* secondary instances made but the last, which is the pending one; and no
\* plain primary instance is held, in the RecursiveSNARK or in its buffers.
C16_RunningInstancesAreTheFolds ==
  (BetweenCalls /\ rs[1].i >= 1) =>
    LET i == rs[1].i
    IN /\ Len(frame.folded_primary) = i - 1
       /\ rs[1].r_U_primary =
            refold("E1", pp.ro_consts_primary, digest(pp),
                   from_r1cs_instance(frame.base[1]), frame.folded_primary, i - 1)
       /\ Len(frame.folded_secondary) = i - 1
       /\ rs[1].r_U_secondary =
            refold("E2", pp.ro_consts_secondary, scalar_as_base("E1", digest(pp)),
                   RelaxedR1CSInstance_default(pp.circuit_shape_secondary.r1cs_shape),
                   frame.folded_secondary, i - 1)
       /\ Len(frame.made_secondary) = i
       /\ \A k \in 1..(i - 1) : frame.folded_secondary[k].u = frame.made_secondary[k]
       /\ rs[1].l_u_secondary = frame.made_secondary[i]
       /\ is_sat("E2", pp.circuit_shape_secondary.r1cs_shape, pp.ck_secondary,
                 rs[1].l_u_secondary, rs[1].l_w_secondary) = "Ok"
       /\ "l_u_primary" \notin DOMAIN rs[1]
       /\ rs[1].buffer_primary.l_u = None
       /\ frame.l_u_primary = None

\* Three calls went through with the cubic circuit on the primary side: two
\* instances were folded on each side and both running instances moved.
C16_Witness ==
  /\ BetweenCalls /\ rs[1].i = 3 /\ pp.types = <<"Cubic", "Trivial">>
  /\ Len(frame.folded_primary) = 2 /\ Len(frame.folded_secondary) = 2
  /\ rs[1].r_U_primary.u > 1 /\ rs[1].r_U_secondary.u > 0
  /\ last.op = "prove_step" /\ last.res = "Ok"

\* A call past the early return is in progress.
InCall == frame.pc # "idle"

\* The statements of the call in progress that have run include st.
Done(st) == \E k \in DOMAIN frame.done : frame.done[k] = st

\* C18: in a prove_step call with i >= 1 the statements run in the order
\* fold of the secondary pair, synthesis of the primary circuit, fold of the
\* primary pair, synthesis of the secondary circuit, update.  The secondary
\* fold folds the pending instance of the entry state into its running
\* instance; the primary circuit is given the cross-term commitment of that
\* fold; the primary fold folds the instance the primary circuit made; the
\* secondary circuit is given that instance and the cross-term commitment of
\* the primary fold.  i, zi_primary, zi_secondary and the pending secondary
\* pair change only in the update, after the four.
C18_StatementsInOrder ==
  /\ [](InCall =>
         LET e == frame.entry[1]
         IN /\ Append(frame.done, frame.pc)
                 = SubSeq(<<"fold_secondary", "synthesize_primary", "fold_primary",
                            "synthesize_secondary", "update">>,
                          1, Len(frame.done) + 1)
            /\ rs[1].r_U_secondary =
                 IF Done("fold_secondary")
                 THEN NIFS_verify("E2", pp.ro_consts_secondary,
                                  scalar_as_base("E1", digest(pp)),
                                  e.r_U_secondary, e.l_u_secondary,
                                  frame.nifs_secondary).U
                 ELSE e.r_U_secondary
            /\ Done("fold_secondary") =>
                 frame.inputs_primary[1].T
                   = Some(decompress("E2", frame.nifs_secondary).val)
            /\ rs[1].r_U_primary =
                 IF Done("fold_primary")
                 THEN NIFS_verify("E1", pp.ro_consts_primary, digest(pp),
                                  e.r_U_primary, frame.l_u_primary[1],
                                  frame.nifs_primary).U
                 ELSE e.r_U_primary
            /\ Done("fold_primary") =>
                 /\ frame.inputs_secondary[1].T
                      = Some(decompress("E1", frame.nifs_primary).val)
                 /\ frame.inputs_secondary[1].u = frame.l_u_primary
            /\ rs[1].i = e.i
            /\ rs[1].zi_primary = e.zi_primary
            /\ rs[1].zi_secondary = e.zi_secondary
            /\ rs[1].l_u_secondary = e.l_u_secondary
            /\ rs[1].l_w_secondary = e.l_w_secondary)
  /\ [][(rs # None /\ rs[1].i >= 1
          /\ \/ rs'[1].i # rs[1].i
             \/ rs'[1].zi_primary # rs[1].zi_primary
             \/ rs'[1].zi_secondary # rs[1].zi_secondary
             \/ rs'[1].l_u_secondary # rs[1].l_u_secondary
             \/ rs'[1].l_w_secondary # rs[1].l_w_secondary)
        => (frame.pc = "update" /\ Len(frame.done) = 4 /\ frame'.pc = "idle")]_vars

\* The second call of a fifth-root computation has run its two folds and
\* its two syntheses, and the update is next.
C18_Witness ==
  /\ frame.pc = "update" /\ Len(frame.done) = 4
  /\ pp.types[1] = "FifthRoot" /\ rs[1].i = 1
  /\ rs[1].r_U_primary # frame.entry[1].r_U_primary

\* C19: in a prove_step call with i >= 1 the primary augmented circuit is
\* given the running and the pending secondary instance, the counter and
\* zi_primary of the entry state, and the secondary augmented circuit the
\* running primary instance of the entry state: the values before the folds
\* that the call has by then written over them.
C19_CircuitsGetPreFoldValues ==
  InCall =>
    LET e == frame.entry[1]
    IN /\ frame.inputs_primary # None =>
            /\ frame.inputs_primary[1].U = Some(e.r_U_secondary)
            /\ frame.inputs_primary[1].u = Some(e.l_u_secondary)
            /\ frame.inputs_primary[1].i = e.i
            /\ frame.inputs_primary[1].zi = Some(e.zi_primary)
       /\ frame.inputs_secondary # None =>
            /\ frame.inputs_secondary[1].U = Some(e.r_U_primary)
            /\ frame.inputs_secondary[1].i = e.i
            /\ frame.inputs_secondary[1].zi = Some(e.zi_secondary)

\* In the third call both folds were written over running instances that
\* differ from the ones the circuits were given.
C19_Witness ==
  /\ frame.pc = "synthesize_secondary" /\ rs[1].i = 2
  /\ frame.inputs_primary # None /\ frame.inputs_secondary # None
  /\ rs[1].r_U_secondary # frame.entry[1].r_U_secondary
  /\ rs[1].r_U_primary # frame.entry[1].r_U_primary
  /\ frame.inputs_primary[1].U = Some(frame.entry[1].r_U_secondary)
  /\ frame.inputs_secondary[1].U = Some(frame.entry[1].r_U_primary)

(***************************************************************************)
(* The state new produces.                                                 *)
(***************************************************************************)
\* C21: the RecursiveSNARK that new returns has i = 0; its running primary
\* pair is the instance and witness of the primary base circuit lifted to
\* relaxed form (u = 1, E = 0 and its commitment, W and X taken over); its
\* running secondary pair is the default instance and witness of the
\* secondary shape; its pending secondary pair is the instance and witness
\* of the secondary base circuit synthesized with the primary base instance
\* as the instance to fold; zi_primary and zi_secondary are the outputs of
\* the two syntheses.
C21_StateAfterNew ==
  JustConstructed =>
    LET S1 == pp.circuit_shape_primary.r1cs_shape
        S2 == pp.circuit_shape_secondary.r1cs_shape
        cs_primary ==
          NovaAugmentedCircuit_synthesize(
            "E2", pp.augmented_circuit_params_primary,
            NovaAugmentedCircuitInputs(scalar_as_base("E1", digest(pp)), 0,
                                       last.z0_primary, None, None, None, None),
            last.c_primary, pp.ro_consts_circuit_primary)
        uw_primary == r1cs_instance_and_witness_with("E1", S1, pp.ck_primary, cs_primary)
        cs_secondary ==
          NovaAugmentedCircuit_synthesize(
            "E1", pp.augmented_circuit_params_secondary,
            NovaAugmentedCircuitInputs(digest(pp), 0, last.z0_secondary, None, None,
                                       Some(uw_primary.u), None),
            last.c_secondary, pp.ro_consts_circuit_secondary)
        uw_secondary ==
          r1cs_instance_and_witness_with("E2", S2, pp.ck_secondary, cs_secondary)
    IN /\ rs[1].i = 0
       /\ rs[1].z0_primary = last.z0_primary
       /\ rs[1].z0_secondary = last.z0_secondary
       /\ rs[1].r_U_primary.u = 1
       /\ rs[1].r_U_primary.comm_E = commit("E1", pp.ck_primary, Zeros(S1.num_cons))
       /\ rs[1].r_U_primary.comm_W = uw_primary.u.comm_W
       /\ rs[1].r_U_primary.X = uw_primary.u.X
       /\ rs[1].r_W_primary = [W |-> uw_primary.w.W, E |-> Zeros(S1.num_cons)]
       /\ is_sat("E1", S1, pp.ck_primary, uw_primary.u, uw_primary.w) = "Ok"
       /\ rs[1].r_U_secondary
            = [comm_W |-> 0, comm_E |-> 0, u |-> 0, X |-> Zeros(S2.num_io)]
       /\ rs[1].r_W_secondary = [W |-> Zeros(S2.num_vars), E |-> Zeros(S2.num_cons)]
       /\ rs[1].l_u_secondary = uw_secondary.u
       /\ rs[1].l_w_secondary = uw_secondary.w
       /\ rs[1].zi_primary = cs_primary.zi
       /\ rs[1].zi_secondary = cs_secondary.zi
       /\ <<rs[1].zi_primary, rs[1].zi_secondary>> = zn_direct

\* new was called with the cubic circuit on the primary side: the running
\* primary instance is a lifted instance with a commitment that is not 0.
C21_Witness ==
  /\ JustConstructed
  /\ pp.types = <<"Cubic", "Trivial">>
  /\ rs[1].z0_primary = <<1>>
  /\ rs[1].zi_primary = <<7>>
  /\ rs[1].r_U_primary.u = 1 /\ rs[1].r_U_primary.comm_W # 0
  /\ rs[1].r_U_secondary.u = 0

(***************************************************************************)
(* The fold of CompressedSNARK::prove and the fold of prove_step.          *)
(***************************************************************************)
\* A CompressedSNARK was made and is as prove returned it.
JustCompressed == compressed # None /\ tampered = "" /\ rs # None

verifier_fold(self, params) ==
  NIFS_verify("E2", params.ro_consts_secondary, scalar_as_base("E1", digest(params)),
              self.r_U_secondary, self.l_u_secondary, self.nifs_secondary.comm_T)

\* C23: the instance that CompressedSNARK::verify folds from the stored
\* r_U_secondary and l_u_secondary is the instance the prover folded and made
\* the secondary SNARK for; verify answers Ok only if that fold goes through,
\* the secondary SNARK verifies against the folded instance and the primary
\* SNARK against the stored r_U_primary; with the right parameters, number of
\* steps and inputs an undecodable cross-term commitment is answered with
\* InvalidCommitment and an invalid primary or secondary SNARK with
\* ProofVerifyError.
C23_VerifierFoldsWhatTheProverFolded ==
  /\ JustCompressed =>
       /\ verifier_fold(compressed[1], pp).ok
       /\ verifier_fold(compressed[1], pp).U = compressed[1].f_W_snark_secondary.U
  /\ (last.op = "compressed_verify" /\ last.res = "Ok") =>
       LET vk == CompressedSNARK_setup(vpp).vk
           f == verifier_fold(compressed[1], vpp)
       IN /\ f.ok
          /\ SNARK_verify(compressed[1].f_W_snark_secondary, vk.vk_secondary, f.U) = "Ok"
          /\ SNARK_verify(compressed[1].r_W_snark_primary, vk.vk_primary,
                          compressed[1].r_U_primary) = "Ok"
  /\ (last.op = "compressed_verify" /\ SameParameters
        /\ last.num_steps = StepsProven(rs[1])
        /\ last.z0_primary = rs[1].z0_primary
        /\ last.z0_secondary = rs[1].z0_secondary) =>
       /\ tampered = "nifs_secondary.comm_T" => last.res = "InvalidCommitment"
       /\ tampered \in {"r_W_snark_primary", "f_W_snark_secondary"}
            => last.res = "ProofVerifyError"

\* A three-step compressed proof whose secondary SNARK was invalidated was
\* verified with the right parameters, number of steps and inputs.
C23_Witness ==
  /\ last.op = "compressed_verify" /\ last.res = "ProofVerifyError"
  /\ tampered = "f_W_snark_secondary" /\ SameParameters
  /\ rs[1].i = 3 /\ last.num_steps = 3
  /\ last.z0_primary = rs[1].z0_primary /\ last.z0_secondary = rs[1].z0_secondary

(***************************************************************************)
(* A fifth state machine: the three satisfiability checks of               *)
(* RecursiveSNARK::verify as the tasks of its two nested rayon::join       *)
(* calls.  A task may be stolen and run by another thread, so the three    *)
(* finish in any order; the joins return when all three have finished.     *)
(* threads[k] is task k (1: running primary pair, 2: running secondary     *)
(* pair, 3: pending secondary pair); frame holds the call in progress, the *)
(* order in which the tasks finished and which result was returned.  The   *)
(* proof verified had any of its witnesses altered.                        *)
(***************************************************************************)
\* The closure of task k.
verify_task(k, self, params) ==
  CASE k = 1 -> is_sat_relaxed("E1", params.circuit_shape_primary.r1cs_shape,
                               params.ck_primary, self.r_U_primary, self.r_W_primary)
    [] k = 2 -> is_sat_relaxed("E2", params.circuit_shape_secondary.r1cs_shape,
                               params.ck_secondary, self.r_U_secondary,
                               self.r_W_secondary)
    [] k = 3 -> is_sat("E2", params.circuit_shape_secondary.r1cs_shape,
                       params.ck_secondary, self.l_u_secondary, self.l_w_secondary)

\* Fault injection: the results are looked at from the last to the first.
verify_join_result_reversed(res_r_primary, res_r_secondary, res_l_secondary) ==
  IF res_l_secondary # "Ok" THEN [res |-> res_l_secondary, reported |-> 3]
  ELSE IF res_r_secondary # "Ok" THEN [res |-> res_r_secondary, reported |-> 2]
  ELSE IF res_r_primary # "Ok" THEN [res |-> res_r_primary, reported |-> 1]
  ELSE [res |-> "Ok", reported |-> 0]

\* check the returned res objects: res_r_primary?; res_r_secondary?;
\* res_l_secondary?; (reported: which of the three returned, 0 for none)
verify_join_result(res_r_primary, res_r_secondary, res_l_secondary) ==
  IF res_r_primary # "Ok" THEN [res |-> res_r_primary, reported |-> 1]
  ELSE IF res_r_secondary # "Ok" THEN [res |-> res_r_secondary, reported |-> 2]
  ELSE IF res_l_secondary # "Ok" THEN [res |-> res_l_secondary, reported |-> 3]
  ELSE [res |-> "Ok", reported |-> 0]

InitJoin ==
  /\ built = <<>>
  /\ digests = <<>>
  /\ compressed = <<>>
  /\ threads = [k \in 1..3 |-> [pc |-> "idle", res |-> ""]]
  /\ frame = [pc |-> "idle", altered |-> {}, finished |-> <<>>, reported |-> 0,
              num_steps |-> 0, z0_primary |-> <<>>, z0_secondary |-> <<>>]
  /\ \E t \in CircuitTypes :
       /\ pp = setup(ShapeCircuit(t[1]), ShapeCircuit(t[2]), "ppsnark", "ppsnark")
       /\ vpp = pp
  /\ rs = None
  /\ last = Last("setup", "Ok", <<>>, 0, 0, <<>>, <<>>,
                 ShapeCircuit("Trivial"), ShapeCircuit("Trivial"), "")
  /\ zn_direct = <<>>
  /\ tampered = ""
  /\ failed = FALSE

\* The proof goes through serialization and one more of its witnesses comes
\* back altered.
AlterWitness(field) ==
  /\ rs # None /\ Running /\ ~failed
  /\ rs[1].i >= 1
  /\ frame.pc = "idle"
  /\ field \notin frame.altered
  /\ rs' = Some(tamper(rs[1], field))
  /\ tampered' = field
  /\ frame' = [frame EXCEPT !.altered = @ \cup {field}]
  /\ last' = Last("tamper", "Ok", <<>>, 0, 0, <<>>, <<>>,
                  ShapeCircuit("Trivial"), ShapeCircuit("Trivial"), field)
  /\ UNCHANGED <<pp, zn_direct, failed, built, digests, vpp, compressed, threads>>

\* verify is entered: the parameter checks and the hash checks, and if they
\* pass the three tasks are handed to the joins.
VerifyBegin(num_steps, z0_primary, z0_secondary) ==
  /\ rs # None /\ Running
  /\ frame.pc = "idle"
  /\ last.op # "verify"
  /\ IF verify_reads_digest(rs[1], num_steps, z0_primary, z0_secondary)
        /\ verify_hash_primary(rs[1], pp, num_steps, z0_primary)
             = rs[1].l_u_secondary.X[1]
        /\ verify_hash_secondary(rs[1], pp, num_steps, z0_secondary)
             = scalar_as_base("E2", rs[1].l_u_secondary.X[2])
     THEN /\ frame' = [frame EXCEPT !.pc = "join", !.finished = <<>>,
                                    !.reported = 0, !.num_steps = num_steps,
                                    !.z0_primary = z0_primary,
                                    !.z0_secondary = z0_secondary]
          /\ threads' = [k \in 1..3 |-> [pc |-> "spawned", res |-> ""]]
          /\ UNCHANGED last
     ELSE /\ last' = Last("verify", "ProofVerifyError", <<>>, 0, num_steps,
                          z0_primary, z0_secondary,
                          ShapeCircuit("Trivial"), ShapeCircuit("Trivial"), "")
          /\ frame' = [frame EXCEPT !.finished = <<>>, !.reported = 0]
          /\ UNCHANGED threads
  /\ pp' = IF verify_reads_digest(rs[1], num_steps, z0_primary, z0_secondary)
           THEN digest_init(pp) ELSE pp
  /\ UNCHANGED <<rs, zn_direct, tampered, failed, built, digests, vpp, compressed>>

\* Task k runs to its end on whichever thread has it.
TaskRuns(k) ==
  /\ frame.pc = "join"
  /\ threads[k].pc = "spawned"
  /\ threads' = [threads EXCEPT ![k] = [pc |-> "finished",
                                        res |-> verify_task(k, rs[1], pp)]]
  /\ frame' = [frame EXCEPT !.finished = Append(@, k)]
  /\ UNCHANGED <<pp, rs, last, zn_direct, tampered, failed, built, digests, vpp, compressed>>

\* Both joins have returned; the results are looked at and verify returns.
JoinReturns ==
  /\ frame.pc = "join"
  /\ \A k \in 1..3 : threads[k].pc = "finished"
  /\ LET r == verify_join_result(threads[1].res, threads[2].res, threads[3].res)
     IN /\ last' = Last("verify", r.res,
                        IF r.res = "Ok" THEN <<rs[1].zi_primary, rs[1].zi_secondary>>
                        ELSE <<>>,
                        0, frame.num_steps, frame.z0_primary, frame.z0_secondary,
                        ShapeCircuit("Trivial"), ShapeCircuit("Trivial"), "")
        /\ frame' = [frame EXCEPT !.pc = "idle", !.reported = r.reported]
  /\ threads' = [k \in 1..3 |-> [pc |-> "idle", res |-> ""]]
  /\ UNCHANGED <<pp, rs, zn_direct, tampered, failed, built, digests, vpp, compressed>>

NextJoin ==
  \/ \E z0p \in Z0Claimed, z0s \in {<<0>>} :
       \E c1 \in Synthesizable(pp.types[1], "E1", z0p),
          c2 \in Synthesizable(pp.types[2], "E2", z0s) : New(c1, c2, z0p, z0s)
  \/ /\ rs # None
     /\ frame.pc = "idle"
     /\ last.op \in {"new", "prove_step"}
     /\ \E c1 \in Synthesizable(pp.types[1], "E1", rs[1].zi_primary),
           c2 \in Synthesizable(pp.types[2], "E2", rs[1].zi_secondary) :
          ProveStep(c1, c2)
  \/ \E f \in WitnessFields : AlterWitness(f)
  \/ /\ rs # None
     /\ \E n \in {rs[1].i, 0} : VerifyBegin(n, rs[1].z0_primary, rs[1].z0_secondary)
  \/ \E k \in 1..3 : TaskRuns(k)
  \/ JoinReturns

SpecJoin == InitJoin /\ [][NextJoin]_vars

\* The first check, in the order running primary, running secondary,
\* pending secondary, that the proof fails (0: none).
first_failing(self, params) ==
  IF \A k \in 1..3 : verify_task(k, self, params) = "Ok" THEN 0
  ELSE CHOOSE k \in 1..3 :
         /\ verify_task(k, self, params) # "Ok"
         /\ \A j \in 1..(k - 1) : verify_task(j, self, params) = "Ok"

\* C24: whatever the order in which the three satisfiability checks of
\* verify finish, verify returns what the checks done one after the other
\* return for that RecursiveSNARK, and when several checks fail the error
\* returned is that of the first failing one in the order running primary,
\* running secondary, pending secondary.
C24_JoinOrderIsIrrelevant ==
  (last.op = "verify" /\ rs # None) =>
    /\ last.res = verify(rs[1], pp, last.num_steps, last.z0_primary,
                         last.z0_secondary).res
    /\ last.zn = verify(rs[1], pp, last.num_steps, last.z0_primary,
                        last.z0_secondary).zn
    /\ Len(frame.finished) = 3 =>
         /\ frame.reported = first_failing(rs[1], pp)
         /\ last.res = IF frame.reported = 0 THEN "Ok" ELSE "UnSat"

\* All three pairs of a two-step proof were made unsatisfying; the check of
\* the pending pair finished first and that of the running primary pair
\* last, and the error returned is that of the running primary pair.
C24_Witness ==
  /\ last.op = "verify" /\ rs # None /\ rs[1].i = 2
  /\ frame.finished = <<3, 2, 1>>
  /\ \A k \in 1..3 : verify_task(k, rs[1], pp) # "Ok"
  /\ frame.reported = 1 /\ last.res = "UnSat"

\* C25: CompressedSNARK::verify accepts a proof only for the number of steps
\* that is the step counter of the RecursiveSNARK it was made from; a proof
\* made from a RecursiveSNARK with i = 0 is accepted for no number of steps.
C25_AcceptedOnlyForTheStepCount ==
  (last.op = "compressed_verify" /\ last.res = "Ok") => last.num_steps = rs[1].i

\* What the given prove_step and verify calls return on self, and the
\* RecursiveSNARK they leave.
later_calls(self, params, num_steps) ==
  [step |-> prove_step(self, params, ShapeCircuit(params.types[1]),
                       ShapeCircuit(params.types[2])),
   verified |-> verify(self, params, num_steps, self.z0_primary,
                       self.z0_secondary)]

\* C26: RecursiveSNARK::verify changes no field of the RecursiveSNARK,
\* whether it returns Ok or an error, nor the digest prove_step and verify
\* read from the parameters: the prove_step and verify calls made after it
\* return, and leave, what they would have without it.
C26_VerifyChangesNothing ==
  [][last'.op = "verify" =>
       /\ rs' = rs
       /\ zn_direct' = zn_direct
       /\ digest(pp') = digest(pp)
       /\ verify(rs'[1], pp', last'.num_steps, last'.z0_primary,
                 last'.z0_secondary) = VerifyRet(last'.res, last'.zn)
       /\ (tampered = "" /\ ~failed) =>
            later_calls(rs'[1], pp', rs[1].i) = later_calls(rs[1], pp, rs[1].i)]_vars

\* A two-step proof was verified for three steps, which failed, and it still
\* verifies for two steps and can be extended by a third step.
C26_Witness ==
  /\ Clean /\ last.op = "verify" /\ last.res = "ProofVerifyError"
  /\ rs[1].i = 2 /\ last.num_steps = 3
  /\ later_calls(rs[1], pp, 2).verified.res = "Ok"
  /\ later_calls(rs[1], pp, 2).step.res = "Ok"
  /\ later_calls(rs[1], pp, 2).step.self.i = 3

\* C27: the step counter i is 0 after new, is one more after every
\* prove_step that returns Ok (the first included), is what it was after
\* every other call, and so never decreases; the early return of prove_step
\* (i = 0) is taken in at most one call; z0_primary and z0_secondary are
\* those given to new ever after.
C27_CounterCountsSuccessfulSteps ==
  [][/\ (last'.op = "new" /\ last'.res = "Ok") =>
          /\ rs'[1].i = 0
          /\ rs'[1].z0_primary = last'.z0_primary
          /\ rs'[1].z0_secondary = last'.z0_secondary
     /\ (rs # None /\ rs' # None) =>
          /\ rs'[1].i = IF last' # last /\ last'.op = "prove_step" /\ last'.res = "Ok"
                        THEN rs[1].i + 1 ELSE rs[1].i
          /\ rs'[1].z0_primary = rs[1].z0_primary
          /\ rs'[1].z0_secondary = rs[1].z0_secondary
          /\ (last' # last /\ last'.op = "prove_step" /\ last'.i = 0) =>
               rs[1].i = 0 /\ rs'[1].i = 1
          /\ rs[1].i >= 1 => rs'[1].i >= 1]_vars

\* Two prove_step calls returned Ok and a third one failed: the counter is
\* 2 and the initial inputs are those given to new.
C27_Witness ==
  /\ rs # None /\ rs[1].i = 2
  /\ last.op = "prove_step" /\ last.res # "Ok" /\ last.i = 2
  /\ rs[1].z0_primary = <<1>>

\* The current outputs of a RecursiveSNARK.
zi(self) == <<self.zi_primary, self.zi_secondary>>

\* C28: the step circuits given to the first prove_step (i = 0) have no
\* effect: the first step is done by the circuits given to new, the j-th
\* step (j >= 2) by the circuits given to the j-th prove_step, and the
\* current outputs after k calls are those of new's circuits followed by
\* the circuits of the calls 2..k.
C28_WhichCircuitsDoTheSteps ==
  [][/\ (last'.op = "new" /\ last'.res = "Ok") =>
          zi(rs'[1]) = direct_step(last'.c_primary, last'.c_secondary,
                                   <<last'.z0_primary, last'.z0_secondary>>)
     /\ (last' # last /\ last'.op = "prove_step" /\ last'.res = "Ok") =>
          zi(rs'[1]) = IF last'.i = 0 THEN zi(rs[1])
                       ELSE direct_step(last'.c_primary, last'.c_secondary,
                                        zi(rs[1]))
     /\ (last' # last /\ last'.op = "prove_step" /\ last'.res # "Ok") =>
          zi(rs'[1]) = zi(rs[1])
     /\ (rs' # None /\ tampered' = "") => zi(rs'[1]) = zn_direct']_vars

\* new was given the Cubic circuit on 1, which made the output 7 = 1 + 1 + 5;
\* the first prove_step left it and the second prove_step made it
\* 355 = 343 + 7 + 5 modulo 19: two applications after two calls.
C28_Witness ==
  /\ Clean /\ rs[1].i = 2 /\ pp.types = <<"Trivial", "Cubic">>
  /\ rs[1].z0_secondary = <<1>>
  /\ last.op = "prove_step" /\ last.i = 1 /\ last.res = "Ok"
  /\ zi(rs[1])[2] = <<355 % P2>>

\* C29: CompressedSNARK::prove changes no field of the RecursiveSNARK it is
\* given (the last fold of the secondary pair is made on a fresh pair): the
\* RecursiveSNARK verifies for its step count after the call as before it,
\* a prove_step after the call returns and leaves what it would have
\* without it, and the r_U_secondary and l_u_secondary stored in the
\* CompressedSNARK are those of the RecursiveSNARK, from before the fold.
C29_CompressLeavesTheProof ==
  [][(last' # last /\ last'.op = "compress") =>
       /\ rs' = rs
       /\ zn_direct' = zn_direct
       /\ digest(pp') = digest(pp)
       /\ later_calls(rs'[1], pp', rs[1].i) = later_calls(rs[1], pp, rs[1].i)
       /\ rs[1].i >= 1 => later_calls(rs'[1], pp', rs[1].i).verified.res = "Ok"
       /\ last'.res = "Ok" =>
            /\ compressed'[1].r_U_secondary = rs[1].r_U_secondary
            /\ compressed'[1].l_u_secondary = rs[1].l_u_secondary
            /\ compressed'[1].r_U_primary = rs[1].r_U_primary]_vars

\* A two-step proof was compressed: the fold changed the running secondary
\* instance, the CompressedSNARK holds the one from before the fold, and
\* the RecursiveSNARK still verifies for two steps and takes a third step.
C29_Witness ==
  /\ JustCompressed /\ last.op = "compress" /\ last.res = "Ok"
  /\ rs[1].i = 2 /\ pp.types = <<"Cubic", "Trivial">>
  /\ compressed[1].r_U_secondary = rs[1].r_U_secondary
  /\ verifier_fold(compressed[1], pp).U # rs[1].r_U_secondary
  /\ later_calls(rs[1], pp, 2).verified.res = "Ok"
  /\ later_calls(rs[1], pp, 2).step.self.i = 3

====
